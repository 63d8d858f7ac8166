CONSTANTS
  None = None
  open = open
  concluded = concluded
  Phrases <- MCPhrases
  Concluding <- MCConcluded
  Answers <- MCAnswers

SPECIFICATION HistorySpec
INVARIANTS
  HistoryTypeOK
  CompletionAnnounced
PROPERTIES
  NoFalseChange
  CountedChangeReported
