----------------------------- MODULE PoolClient -----------------------------
(***************************************************************************)
(* How the scheduler uses the block pool: the calls of sim/engine.py as a  *)
(* client of the pool sees them, with tokens reduced to blocks and with    *)
(* the clock.  Each operator is the client's half of an action; CacheSystem *)
(* and PoolSystem add what the pool does.                                  *)
(*                                                                         *)
(* A request that finishes leaves the running ones at once here; that the  *)
(* engine keeps it to the end of its step matters only for outputs of one  *)
(* token (see Engine).                                                     *)
(***************************************************************************)
EXTENDS PrefixCache, Lists

CONSTANTS
  Work,      \* the sessions: sequences of turns
  MaxTime    \* bound: the run is cut at this time

\* blocks and full of the prompt, how often the output crosses a block boundary,
\* whether it ends on one, the pause after it, and a predictor's word on it.
WorkTurn == [blocks : Nat \ {0}, full : Nat, grow : Nat, whole : BOOLEAN,
             pause : Nat, ends : BOOLEAN, guess : Nat]

ASSUME WorkAssumption ==
  /\ MaxTime \in Nat
  /\ Work \in Seq(Seq(WorkTurn))
  /\ \A s \in 1 .. Len(Work) : \A t \in 1 .. Len(Work[s]) :
       LET w == Work[s][t]
       IN  /\ w.full \in {w.blocks, w.blocks - 1}
           /\ w.full = w.blocks => w.grow > 0
           /\ t > 1 => w.blocks >= Work[s][t - 1].blocks + Work[s][t - 1].grow

Clients == 1 .. Len(Work)

VARIABLES
  phase,     \* of each session: "out", "prefill" or "decode"
  turn,      \* its current turn
  chain,     \* how many blocks it holds
  grown,     \* how many of them its output added
  back,      \* when its next turn may arrive
  running,   \* the admitted sessions, oldest first
  now

client == <<phase, turn, chain, grown, back, running, now>>

W(s) == Work[s][turn[s]]
IsFinal(s) == turn[s] = Len(Work[s])

\* The key chain of the first n blocks.
ChainSeq(s, n) == [i \in 1 .. n |-> KeyAt(s, i - 1)]

ClientInit ==
  /\ phase = [s \in Clients |-> "out"]
  /\ turn = [s \in Clients |-> 1]
  /\ chain = [s \in Clients |-> 0]
  /\ grown = [s \in Clients |-> 0]
  /\ back = [s \in Clients |-> 0]
  /\ running = <<>>
  /\ now = 0

CanEnter(s) == phase[s] = "out" /\ turn[s] <= Len(Work[s]) /\ back[s] <= now

Enter(s) ==
  /\ phase' = [phase EXCEPT ![s] = "prefill"]
  /\ chain' = [chain EXCEPT ![s] = W(s).blocks]
  /\ running' = Append(running, s)
  /\ UNCHANGED <<turn, grown, back, now>>

Prefilled(s) ==
  /\ phase[s] = "prefill"
  /\ phase' = [phase EXCEPT ![s] = "decode"]
  /\ UNCHANGED <<turn, chain, grown, back, running, now>>

CanGrow(s) == phase[s] = "decode" /\ grown[s] < W(s).grow

Grown(s) ==
  /\ chain' = [chain EXCEPT ![s] = @ + 1]
  /\ grown' = [grown EXCEPT ![s] = @ + 1]
  /\ UNCHANGED <<phase, turn, back, running, now>>

\* The newest goes, be it the one that asked.
Newest == running[Len(running)]

Preempted ==
  /\ phase' = [phase EXCEPT ![Newest] = "out"]
  /\ chain' = [chain EXCEPT ![Newest] = 0]
  /\ grown' = [grown EXCEPT ![Newest] = 0]
  /\ running' = SubSeq(running, 1, Len(running) - 1)
  /\ UNCHANGED <<turn, back, now>>

CanLeave(s) == phase[s] = "decode" /\ grown[s] = W(s).grow

Leave(s) ==
  /\ phase' = [phase EXCEPT ![s] = "out"]
  /\ turn' = [turn EXCEPT ![s] = @ + 1]
  /\ chain' = [chain EXCEPT ![s] = 0]
  /\ grown' = [grown EXCEPT ![s] = 0]
  /\ back' = [back EXCEPT ![s] = now + W(s).pause]
  /\ running' = Without(running, {s})
  /\ UNCHANGED now

ClockTicks ==
  /\ now < MaxTime
  /\ now' = now + 1
  /\ UNCHANGED <<phase, turn, chain, grown, back, running>>
=============================================================================
