\* A terminal or closed standard input, all mishaps.
CONSTANTS
  Local = Local  Typed = Typed  None = None
  Aliases = {a1}
  MaxStages = 3
  Terminals = {"silent", "closed"}
  Faults = {"link", "spawn", "disk", "edit"}
  MaxMishaps = 2
  Questions <- MCQuestions
SPECIFICATION FairEngineSpec
INVARIANTS StageFed Verdict NothingHidden AnswersRight
PROPERTIES EndsOrWaits
CHECK_DEADLOCK FALSE
