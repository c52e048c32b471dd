SPECIFICATION Spec
CONSTANTS
  Programs <- DrainingPrograms
  Workers = {w1, w2}
  NULL = NULL
  NumElm = 3
  Speculation = FALSE
  RandomJumps = FALSE
  PromptSpawn = FALSE
SYMMETRY Symmetry
INVARIANT NothingLost
