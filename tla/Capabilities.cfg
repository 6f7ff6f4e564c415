CONSTANTS
  Components = {"cooler", "main"}
  Statuses <- SampleStatuses
  Events <- SampleEvents
  MaxUpdates = 2
SPECIFICATION Spec
CHECK_DEADLOCK FALSE
INVARIANT FieldsHoldLastValue
