CONSTANTS
  Providers = {openai, anthropic}
  States = {s1, s2}
  Callbacks = {g1, g2}
  Rebinders = {r1, r2}
  Nothing = Nothing
SPECIFICATION FairSpec
INVARIANTS OneConnectionPerFlow AnswersAreTrue 
PROPERTIES AnswersAreFinal EveryFlowIsForgotten
