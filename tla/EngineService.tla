--------------------------- MODULE EngineService ---------------------------
(***************************************************************************)
(* Engine implements TurnService.                                          *)
(***************************************************************************)
EXTENDS Engine

\* A turn has been asked for once the loop has drained its arrival.
Answered == [s \in Sessions |-> Cardinality({r \in Req : r[1] = s /\ served[r] > 0})]
Asked == {s \in Sessions : \E r \in Active \cup In("waiting") : r[1] = s}

Service == INSTANCE TurnService WITH
  Turns <- [s \in Sessions |-> Len(Trace[s])],
  Load <- IF ClosedLoop THEN Concurrency ELSE Len(Trace),
  answered <- Answered,
  asked <- Asked

\* Every session gets an answer to every turn it asks for, exactly one, in
\* order, within the load of a closed loop; preemption, eviction and the stall
\* guard are invisible (Engine.run with _on_session_turn_done and _finish).
ImplementsService == Service!SSpec
=============================================================================
