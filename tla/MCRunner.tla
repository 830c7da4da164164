------------------------------ MODULE MCRunner ------------------------------
EXTENDS Runner

MCMaker == [r \in Run |-> 2]

(***************************************************************************)
(* Two devices of which both stay, or the one that was elected is gone;    *)
(* one device alone, through two troubles, or for AttemptsBounded three.   *)
(***************************************************************************)
Pair(e, stay, n) ==
  [present |-> {1, 2}, alive |-> stay, elected |-> e, troubles |-> n]
Alone(n) ==
  [present |-> {2}, alive |-> {2}, elected |-> 2, troubles |-> n]

MCSetting == {Pair(1, {1, 2}, 1), Pair(2, {2}, 0), Alone(2)}
MCAlone == {Alone(3)}
=============================================================================
