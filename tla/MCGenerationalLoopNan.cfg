SPECIFICATION Spec
CONSTANTS
  None = None
  NaN = NaN
  NotANumber = NotANumber
  Margin = 1
  Draws <- MCDraws
  Answers <- MCAnswers
  CommandLines <- MCCommandLines
  Payoffs <- MCPayoffs
INVARIANT
  ClampedIntoBounds
