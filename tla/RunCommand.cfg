CONSTANTS
  None = None
  All = All
  Participants = {p}
  MaxInputs = 4
  Presses = {"ctrl-c", "enter", "quit", "runtimes", "others", "enter-processes", "esc"}
  MaxChanges = 1
  IngressCapacity = 1
  EventCapacity = 2
  Robot = {p, driver}
  Drivers = {driver}
  Asked = {{}, {driver}, {other}}
  DiagnosticRoom = 1
  MaxSnapshots = 2
  MaxTraces = 2
SPECIFICATION RunSpec
INVARIANTS
  HandOverIsClean
  StopIsOwedAnAnswer
  EndingIsItsCause
  DashboardIsCurrent
