-------------------------- MODULE MCExplainSettings --------------------------
EXTENDS ExplainSettings

\* The old section: switched on, a route, no advanced field.
OldSection == [enabled |-> TRUE, route |-> "good", advanced |-> Unset]
=============================================================================
