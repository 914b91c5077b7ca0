------------------------------- MODULE MCPool -------------------------------
(***************************************************************************)
(* Instances of PoolSystem for TLC.                                        *)
(***************************************************************************)
EXTENDS PoolSystem

T(b, f, g, w, p, e, q) ==
  [blocks |-> b, full |-> f, grow |-> g, whole |-> w, pause |-> p, ends |-> e, guess |-> q]

\* Three sessions that share one block, with pauses and predictions that differ.
ArmWork == <<
  <<T(2, 1, 1, FALSE, 2, FALSE, 0), T(3, 3, 1, FALSE, 0, FALSE, 1)>>,
  <<T(2, 2, 1, TRUE, 1, TRUE, 1), T(3, 3, 1, FALSE, 0, TRUE, 0)>>,
  <<T(3, 2, 0, FALSE, 0, FALSE, 2)>> >>

View(arm, told) == [arm |-> arm, told |-> told]

EachArm == {<<View(a, "given")>> : a \in {"const_ttl", "ttl_oracle", "oracle_terminal", "predict"}}

\* Pairs that the code's documents and tests hold to be the same policy.
EqualArms == {
  <<View("lru", "given"), View("const_ttl", "given")>>,
  <<View("lru", "given"), View("lru_priority", "given")>>,
  <<View("belady", "given"), View("predict", "truth")>>,
  <<View("belady_pause", "given"), View("predict_guarded", "truth")>>,
  <<View("oracle_terminal", "given"), View("predict_terminal", "truth")>>,
  <<View("lru", "given"), View("predict_guarded", "flat")>>,
  <<View("lru", "given"), View("lru", "false")>>,
  <<View("const_ttl", "given"), View("const_ttl", "false")>>,
  <<View("lru_priority", "given"), View("lru_priority", "false")>>,
  <<View("predict", "given"), View("predict", "false")>>,
  <<View("predict_guarded", "given"), View("predict_guarded", "false")>>,
  <<View("predict_terminal", "given"), View("predict_terminal", "false")>> }

AllArms == EachArm \cup EqualArms
=============================================================================
