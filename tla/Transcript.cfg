\* Up to five pieces against a budget of six bytes and a pipe of eight: outputs
\* that end at the budget, at the cap, and in the middle of a piece; guests that
\* end in every way or are given up.
SPECIFICATION Spec
CONSTANTS
  Pieces <- MCPieces
  OutputMax = 6
  Slack = 2
  MaxPieces = 5
INVARIANTS
  TypeOK
  FirstAnswerWins
  LinesAreCounted
  OutcomeFollowsPrint
