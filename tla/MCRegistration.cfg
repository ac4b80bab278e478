SPECIFICATION RegSpec
CONSTANTS
  MaxAttempts = 3
  MaxChallenges = 3
  MaxQueue = 2
INVARIANTS
  KeyAnswersAttempt
