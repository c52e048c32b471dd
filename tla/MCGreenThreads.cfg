SPECIFICATION Spec
CONSTANTS
  Workers = {w1, w2, w3}
  Threads = {t1, t2, t3, t4}
  Policies = {"Fifo", "Adapter"}
  PromptEnd = TRUE
  NULL = NULL
SYMMETRY Symmetry
INVARIANTS TypeOK SwitchesToSaved StackExclusive TerminatedIsDone AllThreadsEnd
