--------------------------- MODULE MCSourceCapture ---------------------------
EXTENDS SourceCapture

E(type, turn, text) == [type |-> type, turn |-> turn, text |-> text]

\* Two turns, the second with a chunk and the text of the first.
TwoTurns ==
  <<E("start", 1, ""), E("user", 1, "x"), E("step", 1, ""), E("say", 1, "y"),
    E("end", 1, "completed"),
    E("start", 2, ""), E("step", 2, ""), E("chunk", 2, ""), E("say", 2, "y"),
    E("end", 2, "completed")>>

\* A turn that ran out of tokens, one that says nothing, and one with no step.
Unlike ==
  <<E("start", 1, ""), E("step", 1, ""), E("say", 1, "y"),
    E("end", 1, "max-tokens"), E("context", 2, "x"),
    E("start", 2, ""), E("step", 2, ""), E("say", 2, ""),
    E("end", 2, "completed"), E("start", 3, ""), E("end", 3, "aborted")>>
BothScripts == {TwoTurns, Unlike}
OneScript == {TwoTurns}
OneTurn == {SubSeq(TwoTurns, 1, 6)}
=============================================================================
