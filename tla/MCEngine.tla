------------------------------ MODULE MCEngine ------------------------------
(***************************************************************************)
(* Instances of Engine for TLC.  A trace is a few short sessions; the      *)
(* names say what their prompts and outputs are chosen to provoke.         *)
(***************************************************************************)
EXTENDS EngineService

T(p, o, w) == [prompt |-> p, output |-> o, pause |-> w]

\* An open loop: four sessions arrive while others run or think, with a token
\* budget below the number of seats.  The first prompt takes two steps, so a
\* second session may miss the system prompt while the first computes it.  Two
\* long outputs outgrow the pool: preemption at a first token (a prompt of
\* whole blocks), in mid-decode, of a sequence still in prefill and of the one
\* that asked.  The last turn's prompt is larger than the pool.
OpenTrace == <<
  <<T(4, 8, FALSE)>>,
  <<T(4, 8, TRUE), T(12, 2, FALSE)>>,
  <<T(3, 2, FALSE)>>,
  <<T(4, 2, TRUE), T(20, 2, FALSE)>> >>

\* A pool just large enough that a victim's readmission leaves room for the
\* growth it was preempted for, so every preemption is followed by progress.
GrowTrace == <<
  <<T(3, 5, TRUE), T(9, 2, FALSE)>>,
  <<T(3, 5, FALSE)>>,
  <<T(4, 4, FALSE)>> >>

\* A first token that is the last one, in a full pool: the finished request is
\* the newest in running when an older one finds no room.
OneTokenTrace == <<
  <<T(11, 4, FALSE)>>,
  <<T(11, 4, FALSE)>>,
  <<T(11, 1, TRUE), T(14, 1, FALSE)>>,
  <<T(10, 1, FALSE)>> >>
=============================================================================
