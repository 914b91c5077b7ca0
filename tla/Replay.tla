------------------------------- MODULE Replay -------------------------------
(***************************************************************************)
(* bench/validate_vs_vllm.py: a trace is replayed against a live server by *)
(* a pool of threads, one session to a thread, and then simulated; the     *)
(* report compares the two.  The server is kept to what the repository     *)
(* knows of it: it tries requests in any order, counts queries and hits at *)
(* every attempt, whether it admits the request or leaves it waiting, may  *)
(* preempt one that runs, whose blocks stay cached, and may fail one.  It  *)
(* has room for everything it computed, so that what a request finds is    *)
(* the most it can find; so has the simulator until it preempts.           *)
(***************************************************************************)
EXTENDS Workload, FiniteSets, FiniteSetsExt

CONSTANTS Generated,    \* lists of sessions generate_sessions may return
          Limit,        \* --max-prompt-tokens
          Concurrency,  \* --concurrency
          BlockSize,    \* tokens of a block
          SharedBlocks, \* blocks of the system prompt
          Faults,       \* requests the server may fail
          Requeries,    \* second attempts the server may make at a request
          SimPreempts   \* preemptions the simulator may make

ASSUME ReplayAssumption ==
  /\ {Concurrency, BlockSize} \subseteq Nat \ {0}
  /\ {Limit, SharedBlocks, Faults, Requeries, SimPreempts} \subseteq Nat

VARIABLES
  generated,  \* what the generator returned
  future,     \* the executor's future of each kept session
  turn,       \* the turn its thread is at
  at,         \* where in run_session the thread is
  consumed,   \* results the main thread has taken from pool.map
  phase,      \* what the main thread does
  records,    \* the turns recorded, per kept session
  hits,       \* blocks the server found when it last admitted each turn
  computed,   \* prompt tokens of each session whose KV the server has
  queries,    \* the server's counter of queried prompt tokens
  hitBlocks,  \* its counter of hits, in blocks
  preempted,  \* its counter of preemptions
  faults,     \* failures still to come
  requeries,  \* second attempts still to come
  queue,      \* the simulator's sessions not started, by position
  live,       \* the simulator's requests: session id, turn, is_last_turn
  simTurns,   \* what the simulator served: <<session id, turn, blocks hit>>
  simPreempted \* its n_preemptions

replay == <<future, turn, at, records>>
server == <<hits, computed, queries, hitBlocks, preempted, faults, requeries>>
sim    == <<queue, live, simTurns, simPreempted>>
vars   == <<generated, replay, server, sim, consumed, phase>>

Sessions == Truncate(generated, Limit)
N        == Len(Sessions)
Turns(p) == Sessions[p].turns
Now(p)   == Turns(p)[turn[p]]

\* What main has done when the pool takes over: the trace is drawn and cut, the
\* metrics are read once.  A server without the counters ends the script before.
Init ==
  /\ generated \in Generated
  /\ future = [p \in 1..N |-> "pending"]
  /\ turn = [p \in 1..N |-> 1] /\ at = [p \in 1..N |-> "build"]
  /\ records = [p \in 1..N |-> <<>>] /\ hits = [p \in 1..N |-> <<>>]
  /\ computed = [p \in 1..N |-> 0] /\ queries = 0 /\ hitBlocks = 0 /\ preempted = 0
  /\ consumed = 0 /\ phase = "replay"
  /\ faults = Faults /\ requeries = Requeries
  /\ queue = <<>> /\ live = {} /\ simTurns = {} /\ simPreempted = 0

(***************************************************************************)
(* The executor and Replayer.run_session                                   *)
(***************************************************************************)

Running == {p \in 1..N : future[p] = "running"}

\* Futures are taken in the order they were submitted.
Take(p) ==
  /\ future[p] = "pending" /\ Cardinality(Running) < Concurrency
  /\ \A q \in 1..p - 1 : future[q] # "pending"
  /\ future' = [future EXCEPT ![p] = "running"]
  /\ UNCHANGED <<generated, turn, at, records, server, sim, consumed, phase>>

Goto(p, label) == at' = [at EXCEPT ![p] = label]

Post(p) ==
  /\ future[p] = "running" /\ at[p] = "build"
  /\ Goto(p, "waiting")
  /\ UNCHANGED <<generated, future, turn, records, server, sim, consumed, phase>>

\* The answer is recorded under the lock; a pause follows if the turn has one.
Record(p) ==
  /\ at[p] = "answered"
  /\ records' = [records EXCEPT ![p] = Append(@, turn[p])]
  /\ Goto(p, IF Now(p).pause > 0 THEN "asleep" ELSE "awake")
  /\ UNCHANGED <<generated, future, turn, server, sim, consumed, phase>>

WakeUp(p) ==
  /\ at[p] = "asleep"
  /\ Goto(p, "awake")
  /\ UNCHANGED <<generated, future, turn, records, server, sim, consumed, phase>>

\* A loop that runs once too often.
Mut_NextTurn(p) ==
  /\ at[p] = "awake"
  /\ turn[p] <= Len(Turns(p))
  /\ turn' = [turn EXCEPT ![p] = @ + 1]
  /\ Goto(p, "build")
  /\ UNCHANGED <<generated, future, records, server, sim, consumed, phase>>

\* The loop over the session's turns.
NextTurn(p) ==
  /\ at[p] = "awake"
  /\ IF turn[p] < Len(Turns(p))
     THEN /\ turn' = [turn EXCEPT ![p] = @ + 1]
          /\ Goto(p, "build")
          /\ UNCHANGED future
     ELSE /\ future' = [future EXCEPT ![p] = "ok"]
          /\ Goto(p, "done")
          /\ UNCHANGED turn
  /\ UNCHANGED <<generated, records, server, sim, consumed, phase>>

(***************************************************************************)
(* The server                                                              *)
(***************************************************************************)

Least(a, b) == IF a < b THEN a ELSE b

\* Full blocks of its prompt: those of its own session, a preempted attempt at
\* the same prompt included, or the system prompt of any.
Found(p) ==
  Max({computed[p] \div BlockSize}
      \cup {Least(SharedBlocks, computed[q] \div BlockSize) : q \in 1..N})

\* Every attempt to schedule a request asks the cache for its prompt.
Query(p) ==
  /\ queries' = queries + Now(p).prompt
  /\ hitBlocks' = hitBlocks + Found(p)

Schedule(p) ==
  /\ at[p] = "waiting"
  /\ Query(p)
  /\ hits' = [hits EXCEPT ![p] = Append(SubSeq(@, 1, turn[p] - 1), Found(p))]
  /\ Goto(p, "scheduled")
  /\ UNCHANGED <<generated, future, turn, records, computed, preempted, faults, requeries, sim, consumed, phase>>

\* An attempt at a request that stays in the queue, for want of blocks say.
Attempt(p) ==
  /\ at[p] = "waiting" /\ requeries > 0
  /\ requeries' = requeries - 1
  /\ Query(p)
  /\ UNCHANGED <<generated, replay, hits, computed, preempted, faults, sim, consumed, phase>>

\* Some of the prompt is computed when the request loses its place.
Preempt(p) ==
  /\ at[p] = "scheduled" /\ requeries > 0
  /\ requeries' = requeries - 1
  /\ preempted' = preempted + 1
  /\ \E c \in computed[p]..Now(p).prompt : computed' = [computed EXCEPT ![p] = c]
  /\ Goto(p, "waiting")
  /\ UNCHANGED <<generated, future, turn, records, hits, queries, hitBlocks, faults, sim, consumed, phase>>

\* The next prompt continues this one with ids the script draws itself, so of
\* all that was computed only the prompt can be found again.
Answer(p) ==
  /\ at[p] = "scheduled"
  /\ computed' = [computed EXCEPT ![p] = Now(p).prompt]
  /\ Goto(p, "answered")
  /\ UNCHANGED <<generated, future, turn, records, hits, queries, hitBlocks, preempted, faults, requeries, sim, consumed, phase>>

\* An HTTP error raises in the thread; its future holds the exception.
Fail(p) ==
  /\ at[p] \in {"waiting", "scheduled"} /\ faults > 0
  /\ faults' = faults - 1
  /\ future' = [future EXCEPT ![p] = "failed"]
  /\ Goto(p, "done")
  /\ UNCHANGED <<generated, turn, records, hits, computed, queries, hitBlocks, preempted, requeries, sim, consumed, phase>>

(***************************************************************************)
(* The main thread                                                         *)
(***************************************************************************)

\* Results that nobody waits for.
Mut_Consume ==
  /\ phase = "replay" /\ consumed < N
  /\ consumed' = consumed + 1
  /\ UNCHANGED <<generated, replay, server, sim, phase>>

\* list(pool.map(...)) takes the results in order.
Consume ==
  /\ phase = "replay" /\ consumed < N /\ future[consumed + 1] = "ok"
  /\ consumed' = consumed + 1
  /\ UNCHANGED <<generated, replay, server, sim, phase>>

\* An exception that is caught and tried again.
Mut_Raise ==
  /\ phase = "replay" /\ consumed < N /\ future[consumed + 1] = "failed"
  /\ UNCHANGED vars

\* The exception surfaces at its turn; what has not started is cancelled and
\* leaving the with block waits for the rest.
Raise ==
  /\ phase = "replay" /\ consumed < N /\ future[consumed + 1] = "failed"
  /\ future' = [p \in 1..N |-> IF future[p] = "pending" THEN "cancelled" ELSE future[p]]
  /\ phase' = "raising"
  /\ UNCHANGED <<generated, turn, at, records, server, sim, consumed>>

Leave ==
  /\ phase = "raising" /\ Running = {}
  /\ phase' = "failed"
  /\ UNCHANGED <<generated, replay, server, sim, consumed>>

\* An end one turn early.
Mut_Request(session, t) ==
  [id |-> session.id, turn |-> t, last |-> t + 1 >= Len(session.turns)]

\* A request of the simulator, for the session object given and a turn of it.
Request(session, t) ==
  [id |-> session.id, turn |-> t, last |-> t = Len(session.turns)]

\* The metrics are read again, and the simulator is given the same sessions.
Simulate ==
  /\ phase = "replay" /\ consumed = N
  /\ phase' = "simulate"
  /\ live' = {Request(Sessions[p], 1) : p \in {q \in 1..N : q <= Concurrency}}
  /\ queue' = SubSeq([p \in 1..N |-> p], Concurrency + 1, N)
  /\ UNCHANGED <<generated, replay, server, simTurns, simPreempted, consumed>>

\* The blocks a turn leaves behind, output included, and those the next finds.
SimFound(session, t) ==
  IF t > 1
  THEN (session.turns[t - 1].prompt + session.turns[t - 1].output) \div BlockSize
  ELSE IF simTurns = {} THEN 0 ELSE SharedBlocks

OwnSession(r) == CHOOSE s \in {Sessions[p] : p \in 1..N} : s.id = r.id

\* A request that is admitted and preempted will be admitted again.  A pool
\* that is out of room has begun to evict, too.
SimPreempt(r) ==
  /\ phase = "simulate" /\ r \in live /\ simPreempted < SimPreempts
  /\ simPreempted' = simPreempted + 1
  /\ UNCHANGED <<generated, replay, server, queue, live, simTurns, consumed, phase>>

\* The engine looks the session up in its list by the session id, after every
\* turn; a list index out of range raises.
Position(r) == r.id + 1 <= N

\* After the last turn a closed loop starts the next session, after another the
\* next turn of the session in that place.
SimTurn(r) ==
  /\ phase = "simulate" /\ r \in live
  /\ \E b \in 0..SimFound(OwnSession(r), r.turn) :
       /\ simPreempted = 0 => b = SimFound(OwnSession(r), r.turn)
       /\ simTurns' = simTurns \cup {<<r.id, r.turn, b>>}
  /\ \/ /\ Position(r) /\ r.last /\ queue = <<>>
        /\ live' = live \ {r}
        /\ UNCHANGED <<queue, phase>>
     \/ /\ Position(r) /\ r.last /\ queue # <<>>
        /\ live' = (live \ {r}) \cup {Request(Sessions[Head(queue)], 1)}
        /\ queue' = Tail(queue)
        /\ UNCHANGED phase
     \/ /\ Position(r) /\ ~r.last /\ r.turn < Len(Turns(r.id + 1))
        /\ live' = (live \ {r}) \cup {Request(Sessions[r.id + 1], r.turn + 1)}
        /\ UNCHANGED <<queue, phase>>
     \/ /\ ~Position(r) \/ (~r.last /\ r.turn >= Len(Turns(r.id + 1)))
        /\ live' = live \ {r} /\ phase' = "failed"
        /\ UNCHANGED queue
  /\ UNCHANGED <<generated, replay, server, simPreempted, consumed>>

Write ==
  /\ phase = "simulate" /\ live = {}
  /\ phase' = "written"
  /\ UNCHANGED <<generated, replay, server, sim, consumed>>

Ended == phase \in {"written", "failed"} /\ UNCHANGED vars

ThreadStep == \E p \in 1..N : Take(p) \/ Post(p) \/ Record(p) \/ WakeUp(p) \/ NextTurn(p)

ServerStep == \E p \in 1..N : Schedule(p) \/ Attempt(p) \/ Answer(p) \/ Preempt(p) \/ Fail(p)

MainStep ==
  Consume \/ Raise \/ Leave \/ Simulate \/ Write \/ \E r \in live : SimTurn(r) \/ SimPreempt(r)

Next == ThreadStep \/ ServerStep \/ MainStep \/ Ended

Spec == Init /\ [][Next]_vars

\* Threads, main thread and server go on; which request the server takes next
\* and how often it takes it back is its own business, within Requeries.
FairSpec == Spec /\ WF_vars(ThreadStep) /\ WF_vars(ServerStep) /\ WF_vars(MainStep)

(***************************************************************************)
(* Properties                                                              *)
(***************************************************************************)

\* A thread is where the turns of its session allow, it has recorded every turn
\* it has left, and the server neither schedules nor computes more than there is.
TypeOK ==
  /\ future \in [1..N -> {"pending", "running", "ok", "failed", "cancelled"}]
  /\ at \in [1..N -> {"build", "waiting", "scheduled", "answered", "asleep", "awake", "done"}]
  /\ \A p \in 1..N : turn[p] \in 1..Len(Turns(p)) /\ Len(hits[p]) \in {turn[p] - 1, turn[p]}
  /\ computed \in [1..N -> 0..Limit] /\ consumed \in 0..N /\ {queries, hitBlocks} \subseteq Nat
  /\ simPreempted \in 0..SimPreempts
  /\ faults \in 0..Faults /\ requeries \in 0..Requeries /\ preempted \in 0..Requeries - requeries
  /\ phase \in {"replay", "raising", "simulate", "written", "failed"}
  /\ \A r \in live : r.turn \in Nat \ {0}

AllTurns(p) == [t \in 1..Len(Turns(p)) |-> t]

\* When the main thread goes on to compare, every kept turn has been answered
\* and recorded once, in the order of its session, whatever the threads did,
\* and no session failed: the sums of the report are over the whole trace.
RecordsComplete ==
  phase \in {"simulate", "written"} =>
    \A p \in 1..N : future[p] = "ok" /\ records[p] = AllTurns(p)

\* The recorded answers, the prompt tokens the script adds up over them for the
\* inflation, and the blocks the server found when it admitted each.
Answers      == UNION {{<<p, i>> : i \in 1..Len(records[p])} : p \in 1..N}
ActualTokens == MapThenSumSet(LAMBDA pt : Turns(pt[1])[records[pt[1]][pt[2]]].prompt, Answers)
FoundBlocks  == MapThenSumSet(LAMBDA pt : hits[pt[1]][records[pt[1]][pt[2]]], Answers)

\* The report's inflation is 1 exactly when the server tried every prompt once:
\* no answer is missing from the records, every attempt beyond the first is in
\* the counter, whether it ended in a preemption or admitted nothing, and
\* nothing else is.  The /metrics ratio is then "a per-request hit rate": the
\* counter of hits holds what each answer found when it was admitted, while
\* attempts in between and threads that fail go into the same counters.
InflationExact ==
  phase = "written" =>
    /\ queries = ActualTokens <=> requeries = Requeries
    /\ queries = ActualTokens => hitBlocks = FoundBlocks

\* With inflation 1 on both sides, and a pool that holds everything, no turn of
\* the replay finds more blocks than the same turn of the simulator, or than
\* the system prompt at first.  A request tried twice may find more: its own.
HitsWithinSimulator ==
  phase = "written" /\ queries = ActualTokens /\ simPreempted = 0 =>
    \A h \in simTurns : \A p \in 1..N : Sessions[p].id = h[1] =>
      hits[p][h[2]] <= IF h[2] = 1 THEN SharedBlocks ELSE h[3]

\* A report is written only if simulator and server served the same turns: where
\* the cut has removed a session before a kept one, the simulator takes other
\* sessions for it, and must not come to an end.
SameTurns ==
  phase = "written" =>
    {<<h[1], h[2]>> : h \in simTurns} =
      UNION {{<<Sessions[p].id, t>> : t \in 1..Len(Turns(p))} : p \in 1..N}

\* A thread keeps its place through a pause with nothing left to send only in
\* a session that the cut shortened: the generator's last turn has no pause.
OnlyCutSessionsLinger ==
  \A p \in 1..N : at[p] = "asleep" /\ turn[p] = Len(Turns(p)) =>
    \E i \in DOMAIN generated :
      generated[i].id = Sessions[p].id /\ Len(generated[i].turns) > Len(Turns(p))

\* What the engine's model assumes of a trace holds of what the generator and
\* the cut produce: prompts start with the system prompt and contain the whole
\* turn before, output included, and no session is empty.
TraceFitsEngine ==
  \A p \in 1..N :
    /\ Turns(p) # <<>>
    /\ \A t \in 1..Len(Turns(p)) :
         /\ Turns(p)[t].prompt >= SharedBlocks * BlockSize
         /\ t > 1 => Turns(p)[t].prompt >= Turns(p)[t - 1].prompt + Turns(p)[t - 1].output

\* Whatever fails or is preempted, the script ends, with a report or without.
ReplayEnds == <>(phase \in {"written", "failed"})

(***************************************************************************)
(* What the script says of its own token ids                               *)
(***************************************************************************)

\* "Token ids, built to mirror the simulator's content model exactly"
\* (bench/validate_vs_vllm.py:134): the same turn finds the same blocks.
ContentMirrored ==
  phase = "written" =>
    \A h \in simTurns : h[2] > 1 =>
      \A p \in 1..N : Sessions[p].id = h[1] => hits[p][h[2]] = h[3]
=============================================================================
