SPECIFICATION Spec
CONSTANTS
  Messages = {m1, m2}
  Legal = {m1}
  Requests = {q1, q2}
  Skills = {"escalar_para_humano", "buscar_conhecimento"}
  Completions <- MCCompletions
  Older <- MCOlder
  MemoryLimit = 4
  MaxIterations = 2
  MaxRetries = 2
  Parts = 1
  MaxFaults = 1
  MaxJobs = 2
  MaxExpiries = 1
  MaxNotes = 1
  None = None
CHECK_DEADLOCK FALSE
INVARIANTS TypeOK ForgottenOnlyByOverlap RepeatsExplained AnsweredWasSaved BuriedExplained
