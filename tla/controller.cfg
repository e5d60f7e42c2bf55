SPECIFICATION MCSpec
CONSTANTS
  Strategy <- MCStrategy
  Starts = {1, 2, 3}
  Multiplier = 1
  MaxTasks = {0, 2}
  NGoals = 1
  MaxNodes = 2
  MaxJobs = 1
  Subtasks = {0, 1}
  MaxAttempts = 2
  MaxSaves = 4
INVARIANT EndsOnce
INVARIANT TablesAgree
INVARIANT StatusSound
INVARIANT SavedSurvives
PROPERTY CleanKeepsStatus
PROPERTY AttemptsEnd
