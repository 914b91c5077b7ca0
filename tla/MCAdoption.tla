----------------------------- MODULE MCAdoption -----------------------------
(***************************************************************************)
(* Instances of Adoption for TLC.                                          *)
(***************************************************************************)
EXTENDS Adoption

Good == [torch |-> TRUE, build |-> TRUE, capability |-> 75, matmul |-> TRUE, vllm |-> TRUE]

\* The node asked for, one of another architecture, one without a working
\* kernel and one without torch.
SomeNodes == {Good, [Good EXCEPT !.capability = 89], [Good EXCEPT !.matmul = FALSE],
              [Good EXCEPT !.torch = FALSE]}

TwoExperiments == <<"exp01", "exp02">>

\* configs/base.json has an "engine" section with all of them.
AllPinned == Constants
=============================================================================
