------------------------- MODULE MCExplainScheduler -------------------------
(* ExplainScheduler with one or two Sessions and a few explicit requests.  *)
EXTENDS ExplainScheduler, TLC

\* Every manual request is made on some Session, every answer on a question.
MCSubject == [j \in Job |-> IF j \in ManualJob THEN CHOOSE s \in Source : TRUE
                                              ELSE CHOOSE q \in Question : TRUE]

SourceSymmetry == Permutations(Source)
=============================================================================
