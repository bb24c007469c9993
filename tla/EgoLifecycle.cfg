SPECIFICATION Spec
CONSTANTS
  w1 = w1
  w2 = w2
  a = a
  b = b
  r = r
  s = s
  Callers = {w1, w2}
  Versions <- TwoVersions
  Monitored = {1}
  Artifacts = {a, b}
  Runs = {r, s}
  Failing = {r}
  NoPackage = NoPackage
  NoCandidate = NoCandidate
SYMMETRY Symmetry
INVARIANTS ServedIsListed OnePackagePerArtifact VerdictTellsEffect RoutingIsByRelevance
CHECK_DEADLOCK FALSE
