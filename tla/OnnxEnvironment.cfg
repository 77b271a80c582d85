\* Three engines and two embedders, created and closed any number of times.
SPECIFICATION Spec
CONSTANTS
  Engines = {e1, e2, e3}
  Embedders = {m1, m2}
  PromptRetries = TRUE
INVARIANTS
  CountedExactly
  SessionsHaveEnvironment
PROPERTY LeaseKept
