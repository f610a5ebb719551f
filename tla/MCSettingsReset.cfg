SPECIFICATION Spec
CONSTANTS
  Page = {}
  Command = {}
  Route = {"good", "bad"}
  Resolvable = {"good"}
  Advanced = {}
  Legacy <- OldSection
  Unset = unset
  Blank = blank
  Event = event
  MaxRevision = 3
  MaxRestarts = 1
PROPERTIES ResetStaysReset
CHECK_DEADLOCK FALSE
