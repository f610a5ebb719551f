SPECIFICATION Spec
CONSTANTS
  Page = {p1}
  Command = {c1}
  Route = {"good", "bad"}
  Resolvable = {"good"}
  Advanced = {}
  Legacy <- OldSection
  Unset = unset
  Blank = blank
  Event = event
  MaxRevision = 2
  MaxRestarts = 1
INVARIANT
  ToldIsApplied
PROPERTIES
  FormLosesNothing
  OverridesSurvive
