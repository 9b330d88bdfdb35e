SPECIFICATION ScenariosSpec
CONSTANTS
  Journeys <- MCJourneys
  Replies <- MCReplies
  Answers <- MCAnswers
  N = 2
  StepDefs <- MCStepDefs
  Happy <- MCHappy
INVARIANTS CompleteScenariosKept RefutedAreDropped 
CHECK_DEADLOCK FALSE
