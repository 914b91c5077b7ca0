------------------------------ MODULE MCReplay ------------------------------
(***************************************************************************)
(* Instances of Replay for TLC.                                            *)
(***************************************************************************)
EXTENDS Replay

D(out, pause, result) ==
  [repeat |-> TRUE, tool |-> 1, ends |-> FALSE, out |-> out, shrunk |-> 0,
   pause |-> pause, result |-> result]

\* A system prompt of one block, and a task of the given length.
S(id, task, draws) == GenerateSession(id, 2, task, 0, draws, FALSE, 0)

\* Three sessions on two threads: whole ones with and without pauses, one cut
\* before its second turn, one of which nothing is kept.
Whole == << S(0, 1, <<D(2, 1, 1), D(0, 1, 0)>>), S(1, 0, <<D(1, 0, 0), D(1, 0, 3)>>), S(2, 2, <<D(1, 1, 0)>>) >>
Cut   == << S(0, 1, <<D(1, 1, 9), D(1, 1, 0)>>), S(1, 0, <<D(1, 1, 0), D(1, 1, 0)>>), S(2, 1, <<D(3, 0, 0)>>) >>
Last  == << S(0, 1, <<D(1, 0, 1), D(1, 1, 0)>>), S(1, 2, <<D(1, 1, 0)>>), S(2, 20, <<D(1, 1, 0)>>) >>
First == << S(0, 20, <<D(1, 1, 0)>>), S(1, 1, <<D(1, 1, 1), D(1, 1, 0)>>), S(2, 0, <<D(1, 1, 0)>>) >>

Mixed == {Whole, Cut, Last, First}
OnlyWhole == {Whole}
=============================================================================
