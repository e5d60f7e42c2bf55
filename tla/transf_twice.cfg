SPECIFICATION MCSpec
CONSTANTS
  Strategy <- MCStrategy
  Starts = {1, 2, 3}
  Multiplier = 1
  MaxTasks = {2}
  NGoals = 1
  MaxNodes = 4
  MaxJobs = 2
  Subtasks = {0, 1}
  MaxAttempts = 1
  MaxSaves = 4
INVARIANT NoTransfTwice
