--------------------------- MODULE MCExplainTimers ---------------------------
\* ExplainTimers on a short day.
EXTENDS ExplainTimers
=============================================================================
