CONSTANTS
  Procs = {p1, p2}
  Keys = {k1, k2, k3}
  PHashes = {h1, h2}
  Failures = {"init", "call", "open", "write", "flush", "kill"}
  MaxCommands = 3
SYMMETRY MCSymmetry
SPECIFICATION Spec
PROPERTIES KeygenRepairs GenerateRepairs VerifyAnswers
CHECK_DEADLOCK FALSE
