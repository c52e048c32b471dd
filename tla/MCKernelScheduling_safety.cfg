SPECIFICATION Spec
CONSTANTS
  Programs <- SafetyPrograms
  Workers = {w1, w2}
  NULL = NULL
  NumElm = 3
  Speculation = TRUE
  RandomJumps = TRUE
  PromptSpawn = TRUE
SYMMETRY Symmetry
INVARIANTS TypeOK ThreadsCounted SequentialAlone TerminatesAfterProducers TerminatedIsOver NothingLost
