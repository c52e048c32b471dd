SPECIFICATION FairSpec
CONSTANTS
  Programs <- WalkingPrograms
  Workers = {w1, w2}
  NULL = NULL
  NumElm = 3
  Speculation = FALSE
  RandomJumps = FALSE
  PromptSpawn = TRUE
PROPERTY WalksEnd
