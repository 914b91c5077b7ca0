---------------------------- MODULE TurnService ----------------------------
(***************************************************************************)
(* What the simulated server promises to the agents that use it, without   *)
(* blocks, batches or preemptions: the abstract specification that Engine  *)
(* implements (EngineService.tla has the refinement mapping).              *)
(*                                                                         *)
(* An agent session asks for its turns one at a time; between two of them  *)
(* it thinks (the tool pause).  The server answers every turn it was asked *)
(* for, once, and answers are final.  In a closed loop a session begins    *)
(* only when another has ended.                                            *)
(***************************************************************************)
EXTENDS Integers, FiniteSets

CONSTANTS
  Turns,   \* how many turns each session has: a function on 1 .. n, all positive
  Load     \* sessions that may be open at once, at least 1

VARIABLES
  answered,  \* turns answered so far, for each session
  asked      \* the sessions that wait for an answer

svars == <<answered, asked>>

Open == {s \in DOMAIN Turns : answered[s] < Turns[s] /\ (answered[s] > 0 \/ s \in asked)}

SInit ==
  /\ answered = [s \in DOMAIN Turns |-> 0]
  /\ asked = {}

Ask(s) ==
  /\ s \notin asked
  /\ answered[s] < Turns[s]
  /\ Cardinality(Open \cup {s}) <= Load
  /\ asked' = asked \cup {s}
  /\ UNCHANGED answered

Answer(s) ==
  /\ s \in asked
  /\ answered' = [answered EXCEPT ![s] = @ + 1]
  /\ asked' = asked \ {s}

SNext == \E s \in DOMAIN Turns : Ask(s) \/ Answer(s)

\* Whoever has asked gets an answer, and whoever can ask again does.
SSpec ==
  /\ SInit
  /\ [][SNext]_svars
  /\ \A s \in DOMAIN Turns : WF_svars(Answer(s)) /\ SF_svars(Ask(s))
=============================================================================
