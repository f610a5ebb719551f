SPECIFICATION FairSpec
CONSTANTS
  Page = {p1}
  Command = {c1}
  Route = {"good", "bad"}
  Resolvable = {"good"}
  Advanced = {}
  Legacy <- OldSection
  Unset = unset
  Blank = blank
  Event = event
  MaxRevision = 1
  MaxRestarts = 1
INVARIANT
  TypeOK
PROPERTY
  RequestsSettle
