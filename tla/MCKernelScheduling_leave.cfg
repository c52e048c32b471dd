SPECIFICATION Spec
CONSTANTS
  Programs <- LeavingPrograms
  Workers = {w1, w2}
  NULL = NULL
  NumElm = 3
  Speculation = TRUE
  RandomJumps = TRUE
  PromptSpawn = TRUE
SYMMETRY Symmetry
INVARIANT LastThreadTerminates
