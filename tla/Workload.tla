------------------------------ MODULE Workload ------------------------------
(***************************************************************************)
(* sim/workload.py: the generator of agent sessions, and the cut to the    *)
(* model's context window that the replay and two of the analyses apply.   *)
(* The random draws of a turn are its inputs, already as numbers.          *)
(***************************************************************************)
EXTENDS Integers, Sequences

AtLeastOne(n) == IF n < 1 THEN 1 ELSE n

(***************************************************************************)
(* A draw is [repeat, tool, ends, out, shrunk, pause, result]: whether the *)
(* previous tool is repeated, the tool drawn otherwise, whether the        *)
(* termination signal shows, the output length without and with the        *)
(* signal's factor, the pause and the length of the tool's result.         *)
(***************************************************************************)

\* The tool of each turn.  The signal overwrites the tool that later turns
\* may repeat.
ToolOf(first, draws, finishing) ==
  LET tool[t \in 1..Len(draws)] ==
        IF draws[t].ends THEN finishing
        ELSE IF t > 1 /\ ~draws[t].repeat THEN draws[t].tool
        ELSE IF t > 1 THEN tool[t - 1] ELSE first
  IN  tool

Output(d, signal) == AtLeastOne(IF signal THEN d.shrunk ELSE AtLeastOne(d.out))

\* A context that grows by the results alone.
Mut_PromptOf(context, draws, signal) ==
  [t \in 1..Len(draws) |-> IF t = 1 THEN context ELSE context + draws[t - 1].result]

\* A turn's prompt is the whole turn before it and the result of its tool.
PromptOf(context, draws, signal) ==
  LET prompt[t \in 1..Len(draws)] ==
        IF t = 1 THEN context
        ELSE prompt[t - 1] + Output(draws[t - 1], signal) + draws[t - 1].result
  IN  prompt

\* A session that pauses after its end.
Mut_Pause(draws, t) == draws[t].pause

Pause(draws, t) == IF t = Len(draws) THEN 0 ELSE draws[t].pause

GenerateSession(id, system, task, first, draws, signal, finishing) ==
  [id |-> id,
   turns |-> [t \in 1..Len(draws) |->
     [prompt |-> PromptOf(system + task, draws, signal)[t],
      output |-> Output(draws[t], signal),
      tool   |-> ToolOf(first, draws, finishing)[t],
      pause  |-> Pause(draws, t)]]]

(***************************************************************************)
(* The cut.                                                                *)
(***************************************************************************)

\* The turns before the first prompt that does not fit.
Keep(turns, limit) ==
  LET fits == {n \in 0..Len(turns) : \A t \in 1..n : turns[t].prompt <= limit}
  IN  CHOOSE n \in fits : \A k \in fits : k <= n

Truncated(session, limit) ==
  [session EXCEPT !.turns = SubSeq(session.turns, 1, Keep(session.turns, limit))]

HasTurns(session) == session.turns # <<>>

\* Sessions that keep no turn are filtered out; the others keep their ids.
Truncate(sessions, limit) ==
  LET kept[n \in 0..Len(sessions)] ==
        IF n = 0 THEN <<>>
        ELSE LET cut == Truncated(sessions[n], limit)
             IN  IF HasTurns(cut) THEN Append(kept[n - 1], cut) ELSE kept[n - 1]
  IN  kept[Len(sessions)]
=============================================================================
