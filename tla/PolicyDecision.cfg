CONSTANTS
  Names <- Named
  Patterns <- Text
  Star = "*"
  Unmatched = "Zq7-unmatched-by-anything"
  Spelling <- Spelled
  Spelt <- Lettered
  Globs = {"*", "pay*", "p?[!b-d]", "p[az-b]y", "p[!z-a]y"}
  WitnessOf <- Filled
  Roles = {1, 2}
  RuleIds <- Ids
  RawRules <- Written
  Specs <- Registrable
  Calls <- Made
  RoleCap = 6
  MaxRules = 2
  MaxSpecs = 2
  Lines <- Journal
  torn = torn
  Torn = torn
  Nobody = ""
  Unattributed = "unattributed"
  MaxLines = 3
SPECIFICATION ESpec
CHECK_DEADLOCK FALSE
INVARIANTS
  LatestSpecDecides
  VerdictsAgree
  ReportIsRight
  AnalysesAreRight
