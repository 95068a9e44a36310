SPECIFICATION PagesSpec
CONSTANTS
  a1 = a1
  b1 = b1
  Agent <- MCAgent
  Browser <- MCBrowser
  MaxEvents = 2
  MaxTries = 2
  MaxCuts = 1
INVARIANTS AnswersHold UpToDate CommentsHold
