SPECIFICATION Spec
CONSTANTS
  TimesOfDay = {1, 2}
  NoText = "empty"
  Texts = {"empty", "task"}
  Dates <- SomeDates
INVARIANTS
  TypeOK
  OneChecked
  AnswerIsLastChoice
  UntouchedKeepsStart
  ShiftTabUndoesTab
