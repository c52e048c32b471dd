SPECIFICATION FairSpec
CONSTANTS
  Programs <- EndingPrograms
  Workers = {w1, w2}
  NULL = NULL
  NumElm = 3
  Speculation = FALSE
  RandomJumps = FALSE
  PromptSpawn = FALSE
INVARIANTS EndsComplete LastThreadTerminates
PROPERTY ProgramEnds
