SPECIFICATION Spec
SYMMETRY Symmetry
CONSTRAINT FewInFlight
CONSTANTS
  good = good
  better = better
  odd = odd
  Digests = {good, better}
  Operators = {o1, o2}
  Versions = {base, v1, v2}
  Candidates = {v1, v2}
  Baseline = base
  Evaluation <- MCEvaluation
  Prevalence <- MCPrevalence
  Fixture <- MCFixture
  MaxCalibrationError = 1
  Files = {f1}
  Backends = {"managed"}
  MaxActivations = 3
  MaxMishaps = 0
  NoVersion = NoVersion
  NoDigest = NoDigest
  NoOperator = NoOperator
  Requests = {r1, r2}
  Servable = {good, better}
  NoRequest = NoRequest
  MaxInFlight = 2
INVARIANT ReplacedCanBeRestored
CHECK_DEADLOCK FALSE
