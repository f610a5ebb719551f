SPECIFICATION Spec
CONSTANTS
  Page = {}
  Command = {c1}
  Route = {"good", "bad"}
  Resolvable = {"good"}
  Advanced = {}
  Legacy <- OldSection
  Unset = unset
  Blank = blank
  Event = event
  MaxRevision = 3
  MaxRestarts = 0
PROPERTIES CommandEnablesResolved
