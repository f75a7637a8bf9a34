CONSTANTS
  Size = 3
  Corpora <- MCCorpora
  Contexts = {"one", "two"}
  MaxRuns = 2
  MaxFaults = 1
  Nothing = Nothing
SPECIFICATION FairSpec
CHECK_DEADLOCK FALSE
INVARIANTS CompleteIsEarned
PROPERTIES CorpusEnds
