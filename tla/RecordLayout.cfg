SPECIFICATION Spec
CONSTANTS
  Schemas <- SmallSchemas
  Values = {v, w}
  Unset = Unset
INVARIANTS TypeOK GarbledHasCause OverrunHasCause CrashHasCause
CHECK_DEADLOCK FALSE
