CONSTANTS
  Setups <- AllSetups
  KeyRange = 64
  Widths <- AnyWidths
SPECIFICATION Spec
INVARIANTS CancelFinds CountsDistinctTimes CalendarPosition
PROPERTY ImplementsEventQueue
