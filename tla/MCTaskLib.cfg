CONSTANTS
  NumNodes = 3
  Def <- AllClasses
  Exec <- AllSwitches
  Type <- FieldType
SPECIFICATION Spec
INVARIANTS InputsArrive OutputsArrive DispatchSound GivenBack
CHECK_DEADLOCK FALSE
