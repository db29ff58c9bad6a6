CONSTANTS
  Official = {"drive"}
  User = {"nav"}
  Type = {"wheel"}
  Instance = {"left", "nav"}
  TypeOf <- MCTypeOf
  Train = {"old", "new", "next"}
  Line <- MCLine
  Projects <- MCProjects
  Edits <- MCEdits
  MaxEdits = 2
  MaxCommands = 3
SPECIFICATION Spec
INVARIANTS LaunchesItsSources ContainerSuffices VerdictsAgree
CHECK_DEADLOCK FALSE
