-------------------------- MODULE MCSourceObserver --------------------------
(***************************************************************************)
(* The observer: SourceCapture and SourceBounds side by side. What cuts a   *)
(* text keeps no state between two texts and reads none of the captures, so *)
(* a behaviour takes one side: the turns of a session while learning is     *)
(* switched, fails and is reset; a command's search while the session goes  *)
(* on and learning is off; or the cuts of one turn.                         *)
(***************************************************************************)
EXTENDS MCSourceCapture, SourceBounds

VARIABLE side

\* Tools of the turn that is cut: <<name, preview>>.
SomeTools == {<<1, 0>>, <<2, 6>>, <<7, 0>>, <<3, 2>>}
SomeToolLists == UNION {[1..n -> SomeTools] : n \in 0..3}

\* The side that is not taken stays in one of its initial states.
ObserverInit ==
  /\ Init /\ BoundsInit
  /\ side \in {"turns", "search", "cuts"}
  /\ side = "turns" => enabled
  /\ side = "search" => ~enabled
  /\ side = "cuts" => ~enabled /\ ~stalls /\ script = [s \in Session |-> TwoTurns]
  /\ side # "cuts" =>
       /\ limit = Max(Limits)
       /\ turn = Said(0, Max(Lengths), <<>>)

ObserverNext ==
  /\ \/ /\ side = "turns" /\ Next
        /\ answer' = answer /\ UNCHANGED boundsVars
     \/ /\ side = "search" /\ Next
        /\ (Stop \/ UNCHANGED runtimeVars) /\ UNCHANGED boundsVars
     \/ side = "cuts" /\ BoundsNext /\ UNCHANGED vars
  /\ UNCHANGED side

ObserverSpec == ObserverInit /\ [][ObserverNext]_<<side, vars, boundsVars>>
=============================================================================
