CONSTANTS
  None = None
  open = open
  concluded = concluded
  Phrases <- MCPhrases
  Concluding <- MCConcluded
  Answers <- MCAnswers

SPECIFICATION HistorySpec
PROPERTY EveryChangeReported
