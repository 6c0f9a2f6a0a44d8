SPECIFICATION EVSpec
CONSTANTS
  plain = plain
  urgent = urgent
  calm = calm
  alarmed = alarmed
  lost = lost
  leaky = leaky
  c1 = c1
  c2 = c2
  None = None
  Dataset <- MCDataset
  Critical = {urgent}
  Human = {urgent}
  Expected <- MCExpected
  Interpretations = {calm, alarmed, lost, leaky}
  Reading <- MCReading
  Policy <- MCPolicy
  Repeats = 2
  Commits = {c1, c2}
  Qualifiable = c1
  MaxAttempts = 2
  MaxStarts = 3
  MaxTrouble = 1
CONSTRAINTS LaterNearlyDone MostlyAlarmed
INVARIANT QualifiedIsWhole
PROPERTY JudgedOnce
CHECK_DEADLOCK FALSE
