------------------------------- MODULE Engine -------------------------------
(***************************************************************************)
(* The continuous-batching scheduler of sim/engine.py and the session      *)
(* driver that feeds it.                                                   *)
(*                                                                         *)
(* A step of the program is a pass through the loop of Engine.run, cut     *)
(* here into the phases                                                    *)
(*                                                                         *)
(*     arrive -> admit -> chunk -> step -> emit -> arrive                  *)
(*                                                                         *)
(* Time is abstract: while the clock moves (phases step and idle) any tool *)
(* pause may elapse, in any order, so the model has every interleaving of  *)
(* turns that some choice of pauses and step costs produces.  Victims of   *)
(* an eviction are arbitrary (see PrefixCache), so it has those of every   *)
(* retention policy.                                                       *)
(***************************************************************************)
EXTENDS PrefixCache, Sequences

CONSTANTS
  Trace,        \* the sessions: sequences of turns [prompt, output, pause]
  BlockSize,    \* tokens in a block
  MaxSeqs,      \* EngineConfig.max_num_seqs
  MaxBatched,   \* EngineConfig.max_num_batched_tokens
  ClosedLoop,   \* arrival.mode: TRUE for "closed", FALSE for "poisson"
  Concurrency   \* arrival.concurrency

\* pause says whether pause_after_s is positive.
TurnRec == [prompt : Nat \ {0}, output : Nat \ {0}, pause : BOOLEAN]

ASSUME EngineAssumption ==
  /\ Trace \in Seq(Seq(TurnRec))
  /\ Len(Trace) > 0
  /\ \A s \in 1 .. Len(Trace) : Len(Trace[s]) > 0
  /\ {BlockSize, MaxSeqs, MaxBatched, Concurrency} \subseteq Nat \ {0}
  /\ ClosedLoop \in BOOLEAN

\* What generate_sessions guarantees of a trace: every prompt starts with the
\* system prompt, and a turn's prompt contains the whole turn before it.
ASSUME TraceAssumption ==
  \A s \in 1 .. Len(Trace) : \A t \in 1 .. Len(Trace[s]) :
    /\ Trace[s][t].prompt >= SharedBlocks * BlockSize
    /\ t > 1 => Trace[s][t].prompt >= Trace[s][t - 1].prompt + Trace[s][t - 1].output

\* Consecutive failures to schedule anything before run() raises.
StallLimit == 10

Sessions == 1 .. Len(Trace)

Req == UNION {{<<s, t>> : t \in 1 .. Len(Trace[s])} : s \in Sessions}

Turn(r) == Trace[r[1]][r[2]]
NextTurn(r) == <<r[1], r[2] + 1>>
IsFirst(r) == r[2] = 1
IsLast(r) == r[2] = Len(Trace[r[1]])

CeilDiv(n, d) == (n + d - 1) \div d
Least(m, n) == IF m <= n THEN m ELSE n

VARIABLES
  pool,        \* BlockPool.index
  req,         \* the Request objects
  admit,       \* admit_seq of the requests of Engine.running, 0 for others
  waiting,     \* Engine.waiting
  due,         \* arrivals whose time has come, in the order of pending_arrivals
  started,     \* sessions taken from _session_queue
  live,        \* _live_sessions
  served,      \* how many records each turn has
  budget,      \* tokens left in the loop's current phase
  prefilling,  \* the loop's local lists, as sets: they are walked in
  completed,   \*   admission order
  decoding,
  stall,       \* stall_guard
  pc

vars == <<pool, req, admit, waiting, due, started, live, served, budget,
          prefilling, completed, decoding, stall, pc>>

(***************************************************************************)
(* A request is absent until its arrival is pushed, pending until its time *)
(* comes, due until the loop drains it.  blocks is len(keys).  scheduled   *)
(* says that first_schedule_time is set.                                   *)
(***************************************************************************)
States == {"absent", "pending", "due", "waiting", "prefill", "decode", "done"}

Request == [state : States, blocks : Nat, ctx : Nat, prefilled : Nat,
            generated : Nat, scheduled : BOOLEAN]

NewRequest(st) == [state |-> st, blocks |-> 0, ctx |-> 0, prefilled |-> 0,
                   generated |-> 0, scheduled |-> FALSE]

In(st) == {r \in Req : req[r].state = st}
Running == {r \in Req : admit[r] # 0}

IsOldest(r, S) == r \in S /\ \A q \in S : admit[r] <= admit[q]
IsNewest(r, S) == r \in S /\ \A q \in S : admit[q] <= admit[r]

\* req.keys of a request r of the table q.
Chain(q, r) == BlockKeys(r[1], q[r].blocks)

PromptBlocks(r) == CeilDiv(Turn(r).prompt, BlockSize)
FullBlocks(r) == Turn(r).prompt \div BlockSize

(***************************************************************************)
(* The session driver.  A closed loop starts Concurrency sessions at time  *)
(* zero; an open one starts the first at zero and the others later, in     *)
(* their order.                                                            *)
(***************************************************************************)
Mut_Initially == IF ClosedLoop THEN Least(Concurrency + 1, Len(Trace)) ELSE 1
Initially == IF ClosedLoop THEN Least(Concurrency, Len(Trace)) ELSE 1

Init ==
  /\ pool = [k \in {} |-> NewBlock]
  /\ req = [r \in Req |-> NewRequest(IF ~IsFirst(r) THEN "absent"
                                     ELSE IF r[1] <= Initially THEN "due"
                                     ELSE IF ClosedLoop THEN "absent" ELSE "pending")]
  /\ admit = [r \in Req |-> 0]
  /\ waiting = <<>>
  /\ due = [s \in 1 .. Initially |-> <<s, 1>>]
  /\ started = IF ClosedLoop THEN Initially ELSE Len(Trace)
  /\ live = {}
  /\ served = [r \in Req |-> 0]
  /\ budget = 0
  /\ prefilling = {} /\ completed = {} /\ decoding = {}
  /\ stall = 0
  /\ pc = "arrive"

\* The clock passes the arrival time of a pending request.
PauseElapses(r) ==
  /\ pc \in {"step", "idle"}
  /\ req[r].state = "pending"
  /\ IsFirst(r) => \A q \in In("pending") : IsFirst(q) => r[1] <= q[1]
  /\ req' = [req EXCEPT ![r].state = "due"]
  /\ due' = Append(due, r)
  /\ UNCHANGED <<pool, admit, waiting, started, live, served, budget,
                 prefilling, completed, decoding, stall, pc>>

\* Whether the end of turn r starts another session.
Mut_StartsAnother(r) == IsLast(r) /\ ClosedLoop /\ started + 1 < Len(Trace)
StartsAnother(r) == IsLast(r) /\ ClosedLoop /\ started < Len(Trace)

\* A finished turn pushes the next turn of its session, which is due at once
\* if there is no pause; the end of a session starts another in a closed loop.
\* q is the request table in which r is already done.
TurnDone(r, q) ==
  /\ live' = IF IsLast(r) THEN live \ {r[1]} ELSE live
  /\ started' = IF StartsAnother(r) THEN started + 1 ELSE started
  /\ IF IsLast(r) /\ ~StartsAnother(r)
     THEN req' = q /\ due' = due
     ELSE LET next == IF IsLast(r) THEN <<started + 1, 1>> ELSE NextTurn(r)
          IN  IF ~IsLast(r) /\ Turn(r).pause
              THEN /\ req' = [q EXCEPT ![next] = NewRequest("pending")]
                   /\ due' = due
              ELSE /\ req' = [q EXCEPT ![next] = NewRequest("due")]
                   /\ due' = Append(due, next)

(***************************************************************************)
(* Arrivals.                                                               *)
(***************************************************************************)
DrainOne ==
  /\ pc = "arrive"
  /\ due # <<>>
  /\ LET r == Head(due)
     IN  /\ waiting' = Append(waiting, r)
         /\ req' = [req EXCEPT ![r].state = "waiting"]
         /\ live' = IF IsFirst(r) THEN live \cup {r[1]} ELSE live
  /\ due' = Tail(due)
  /\ UNCHANGED <<pool, admit, started, served, budget, prefilling, completed,
                 decoding, stall, pc>>

\* What D decodes leave of the token budget.
Mut_TokenBudget(D) == MaxBatched
TokenBudget(D) == MaxBatched - Cardinality(D)

HasWork == waiting # <<>> \/ Running # {}

EnterAdmission ==
  /\ pc = "arrive" /\ due = <<>> /\ HasWork
  /\ decoding' = {r \in Running : req[r].state = "decode"}
  /\ budget' = TokenBudget(decoding')
  /\ pc' = "admit"
  /\ UNCHANGED <<pool, req, admit, waiting, due, started, live, served,
                 prefilling, completed, stall>>

\* Nothing to do: the clock jumps to the next arrival.
GoIdle ==
  /\ pc = "arrive" /\ due = <<>> /\ ~HasWork /\ In("pending") # {}
  /\ pc' = "idle"
  /\ UNCHANGED <<pool, req, admit, waiting, due, started, live, served, budget,
                 prefilling, completed, decoding, stall>>

Wake ==
  /\ pc = "idle" /\ due # <<>>
  /\ pc' = "arrive"
  /\ UNCHANGED <<pool, req, admit, waiting, due, started, live, served, budget,
                 prefilling, completed, decoding, stall>>

RunDone ==
  /\ pc = "arrive" /\ due = <<>> /\ ~HasWork /\ In("pending") = {}
  /\ pc' = "done"
  /\ UNCHANGED <<pool, req, admit, waiting, due, started, live, served, budget,
                 prefilling, completed, decoding, stall>>

(***************************************************************************)
(* Admission.                                                              *)
(***************************************************************************)
Keys(s, m, n) == {KeyAt(s, i) : i \in m .. n - 1}

\* The prefix hits of r, as a number of blocks.
Hits(r) == {h \in 0 .. FullBlocks(r) : IsPrefixHit(pool, r[1], FullBlocks(r), h)}

Fits(r) == \E h \in Hits(r) :
  CanAcquire(pool, Keys(r[1], 0, h), Keys(r[1], h, PromptBlocks(r)))

\* The guard of the admission loop and the answer of _try_admit.
CanAdmit ==
  /\ waiting # <<>>
  /\ budget > 0
  /\ Cardinality(Running) < MaxSeqs
  /\ Fits(Head(waiting))

\* A new admit_seq.  Only its order with those of the running requests is ever
\* read, so the least number above them will do.
NextSeqs == {n \in {1} \cup {admit[r] + 1 : r \in Running} :
               \A r \in Running : admit[r] < n}

Admit ==
  /\ pc = "admit"
  /\ CanAdmit
  /\ LET r == Head(waiting)
         s == r[1]
     IN  /\ \E h \in Hits(r) :
              /\ \E p \in Acquired(pool, Keys(s, 0, h), Keys(s, h, PromptBlocks(r))) :
                   pool' = MarkFull(p, Keys(s, h, FullBlocks(r)))
              /\ req' = [req EXCEPT ![r] =
                           [state |-> "prefill", blocks |-> PromptBlocks(r),
                            ctx |-> Turn(r).prompt, prefilled |-> h * BlockSize,
                            generated |-> req[r].generated, scheduled |-> TRUE]]
         /\ \E n \in NextSeqs : admit' = [admit EXCEPT ![r] = n]
  /\ waiting' = Tail(waiting)
  /\ budget' = budget - 1
  /\ UNCHANGED <<due, started, live, served, prefilling, completed, decoding,
                 stall, pc>>

BeginStep ==
  /\ pc = "admit" /\ ~CanAdmit
  /\ prefilling' = {r \in Running : req[r].state = "prefill"}
  /\ decoding # {} \/ prefilling' # {}
  /\ stall' = 0
  /\ budget' = TokenBudget(decoding)
  /\ pc' = "chunk"
  /\ UNCHANGED <<pool, req, admit, waiting, due, started, live, served,
                 completed, decoding>>

\* Nothing was admitted and nothing runs.  The program first tries to preempt
\* a resident request; NothingToPreempt says that there is none.
Stall ==
  /\ pc = "admit" /\ ~CanAdmit
  /\ decoding = {} /\ \A r \in Running : req[r].state # "prefill"
  /\ stall' = stall + 1
  /\ pc' = IF stall + 1 > StallLimit THEN "stalled" ELSE "arrive"
  /\ UNCHANGED <<pool, req, admit, waiting, due, started, live, served, budget,
                 prefilling, completed, decoding>>

(***************************************************************************)
(* The step's token budget: one token per decode, the rest to prefill      *)
(* chunks in admission order.                                              *)
(***************************************************************************)
Mut_Chunk(r) == budget
Chunk(r) == Least(Turn(r).prompt - req[r].prefilled, budget)

AllocateChunk ==
  /\ pc = "chunk"
  /\ budget > 0
  /\ \E r \in prefilling :
       /\ IsOldest(r, prefilling)
       /\ LET end == req[r].prefilled + Chunk(r)
          IN  /\ req' = [req EXCEPT ![r].prefilled = end]
              /\ budget' = budget - Chunk(r)
              /\ completed' = IF end >= Turn(r).prompt
                              THEN completed \cup {r} ELSE completed
       /\ prefilling' = prefilling \ {r}
  /\ UNCHANGED <<pool, admit, waiting, due, started, live, served, decoding,
                 stall, pc>>

StartClock ==
  /\ pc = "chunk"
  /\ prefilling = {} \/ budget <= 0
  /\ prefilling' = {}
  /\ pc' = "step"
  /\ UNCHANGED <<pool, req, admit, waiting, due, started, live, served, budget,
                 completed, decoding, stall>>

ClockAdvanced ==
  /\ pc = "step"
  /\ pc' = "emit"
  /\ UNCHANGED <<pool, req, admit, waiting, due, started, live, served, budget,
                 prefilling, completed, decoding, stall>>

(***************************************************************************)
(* Tokens.  The operators below take the pool p and the request table q    *)
(* the step has produced so far and fix pool', req', admit', waiting',     *)
(* due', started', live' and served'.                                      *)
(***************************************************************************)
Seal(p, k) == MarkReady(MarkFull(p, {k}), {k})
TailKey(q, r) == KeyAt(r[1], q[r].blocks - 1)

Finish(r, p, q) ==
  /\ LET sealed == IF q[r].ctx % BlockSize = 0 /\ q[r].blocks > 0
                   THEN Seal(p, TailKey(q, r)) ELSE p
     IN  pool' = Release(sealed, Chain(q, r), TRUE)
  /\ served' = [served EXCEPT ![r] = @ + 1]
  /\ TurnDone(r, [q EXCEPT ![r].state = "done"])
  /\ UNCHANGED <<admit, waiting>>

OutputDone(q, r) == q[r].generated >= Turn(r).output

ProduceToken(r, p, q) ==
  LET q0 == [q EXCEPT ![r].generated = @ + 1]
      q1 == [q0 EXCEPT ![r].ctx = @ + 1]
  IN  IF OutputDone(q1, r)
      THEN Finish(r, p, q1)
      ELSE /\ pool' = p
           /\ req' = q1
           /\ UNCHANGED <<admit, waiting, due, started, live, served>>

Mut_Requeue(v) == Append(waiting, v)
Mut_RequeueLost(v) == waiting
Requeue(v) == <<v>> \o waiting

\* The newest request that has blocks loses them and goes to the front of the
\* queue.  A request that finished in this step is still in running, with its
\* keys.
PreemptOne(p, q) ==
  /\ \E v \in Running :
       /\ IsNewest(v, {r \in Running : q[r].blocks > 0})
       /\ pool' = Release(p, Chain(q, v), FALSE)
       /\ req' = [q EXCEPT ![v] = [NewRequest("waiting") EXCEPT
                                     !.scheduled = q[v].scheduled]]
       /\ admit' = [admit EXCEPT ![v] = 0]
       /\ waiting' = Requeue(v)
  /\ UNCHANGED <<due, started, live, served>>

Mut_NeedsBlock(q, r) == q[r].ctx > q[r].blocks * BlockSize
NeedsBlock(q, r) == q[r].ctx + 1 > q[r].blocks * BlockSize

\* The tail is sealed before the next block is asked for, whether or not the
\* pool has one.
EmitToken(r, p, q) ==
  IF NeedsBlock(q, r)
  THEN LET sealed == Seal(p, TailKey(q, r))
           new    == {KeyAt(r[1], q[r].blocks)}
       IN  \/ \E g \in Acquired(sealed, {}, new) :
                ProduceToken(r, g, [q EXCEPT ![r].blocks = @ + 1])
           \/ ~CanAcquire(sealed, {}, new) /\ PreemptOne(sealed, q)
  ELSE ProduceToken(r, p, q)

\* Requests preempted earlier in the same step are skipped.
FirstTokens == {r \in completed : req[r].state = "prefill"}
NextTokens == {r \in decoding : req[r].state = "decode"}

FirstToken ==
  /\ pc = "emit"
  /\ \E r \in FirstTokens :
       /\ IsOldest(r, FirstTokens)
       /\ EmitToken(r, MarkReady(pool, Chain(req, r)),
                    [req EXCEPT ![r].state = "decode"])
       /\ completed' = completed \ {r}
  /\ UNCHANGED <<budget, prefilling, decoding, stall, pc>>

NextToken ==
  /\ pc = "emit"
  /\ FirstTokens = {}
  /\ \E r \in NextTokens :
       /\ IsOldest(r, NextTokens)
       /\ EmitToken(r, pool, req)
       /\ decoding' = decoding \ {r}
  /\ UNCHANGED <<budget, prefilling, completed, stall, pc>>

\* Only at the end of a step do finished requests leave running.
Mut_StillRunning == Running
StillRunning == {r \in Running : req[r].state \in {"prefill", "decode"}}

EndStep ==
  /\ pc = "emit" /\ FirstTokens = {} /\ NextTokens = {}
  /\ admit' = [r \in Req |-> IF r \in StillRunning THEN admit[r] ELSE 0]
  /\ completed' = {} /\ decoding' = {}
  /\ budget' = 0
  /\ pc' = "arrive"
  /\ UNCHANGED <<pool, req, waiting, due, started, live, served, prefilling,
                 stall>>

Loop ==
  \/ DrainOne \/ EnterAdmission \/ GoIdle \/ Wake \/ RunDone
  \/ Admit \/ BeginStep \/ Stall
  \/ AllocateChunk \/ StartClock \/ ClockAdvanced
  \/ FirstToken \/ NextToken \/ EndStep

\* run() has returned or raised.
Stopped == pc \in {"done", "stalled"} /\ UNCHANGED vars

Next == Loop \/ (\E r \in Req : PauseElapses(r)) \/ Stopped

\* The loop never blocks, and every pass through it moves the clock, so each
\* pause elapses.
Fairness == WF_vars(Loop) /\ \A r \in Req : SF_vars(PauseElapses(r))

Spec == Init /\ [][Next]_vars
FairSpec == Spec /\ Fairness
-----------------------------------------------------------------------------
(***************************************************************************)
(* Properties.                                                             *)
(***************************************************************************)
Active == In("prefill") \cup In("decode")

\* Requests that are somewhere between their arrival and their last token.
Outstanding == Active \cup In("pending") \cup In("due") \cup In("waiting")

Holders(k) == {r \in Active : k \in Chain(req, r)}

\* Types; prefill never runs past the prompt.
TypeOK ==
  /\ DOMAIN pool \subseteq Key /\ pool \in [DOMAIN pool -> Block]
  /\ req \in [Req -> Request]
  /\ \A r \in Req : req[r].prefilled <= Turn(r).prompt
  /\ admit \in [Req -> Nat]
  /\ waiting \in Seq(Req) /\ due \in Seq(Req)
  /\ started \in 1 .. Len(Trace)
  /\ live \subseteq Sessions
  /\ served \in [Req -> Nat]
  /\ budget \in Int
  /\ prefilling \subseteq Req /\ completed \subseteq Req /\ decoding \subseteq Req
  /\ stall \in 0 .. StallLimit + 1
  /\ pc \in {"arrive", "admit", "chunk", "step", "idle", "emit", "done", "stalled"}

\* The reference count of every resident block is the number of active
\* requests whose chain has its key, and an active request finds every block
\* of its chain in the pool: no preemption, finish, eviction or sharing of the
\* system prompt leaks a reference or frees a block in use
\* (BlockPool.acquire, _hold, _release_one; test_invariants.py checks only the
\* sum of the counts at the end of a run).
RefsMatchHolders ==
  /\ \A k \in DOMAIN pool : pool[k].ref = Cardinality(Holders(k))
  /\ \A r \in Active : Chain(req, r) \subseteq DOMAIN pool

\* The pool never holds more blocks than it has (BlockPool.acquire evicts what
\* it needs before it materialises a key).
CapacityRespected == Cardinality(DOMAIN pool) <= Capacity

\* The feasibility check of BlockPool.acquire is exact: what it accepts the
\* eviction can carry out, so the AssertionError after it is unreachable.
EvictionCannotFail ==
  /\ pc = "admit" /\ CanAdmit =>
       LET r == Head(waiting)
       IN  \A h \in Hits(r) :
             Acquired(pool, Keys(r[1], 0, h), Keys(r[1], h, PromptBlocks(r))) # {}
  /\ \A r \in Active :
       LET new == {KeyAt(r[1], req[r].blocks)}
       IN  CanAcquire(pool, {}, new) => Acquired(pool, {}, new) # {}

\* Space is secured before a token exists: a running sequence never holds
\* fewer blocks than its context needs, and never a block it has no token for
\* (Engine._emit_token).
BlocksCoverContext ==
  \A r \in Active : /\ req[r].ctx <= req[r].blocks * BlockSize
                    /\ req[r].ctx > (req[r].blocks - 1) * BlockSize

\* A block of a session that lookup_prefix would hand out was computed: a turn
\* that was served, or that decodes now, had a context that covers it.  An
\* admitted prompt is in the index before it is computed, and a preempted one
\* leaves it (mark_full, mark_ready and _release_one with cacheable=False).
CachedMeansComputed ==
  \A k \in DOMAIN pool :
    Usable(pool, k) /\ k[1] # Sys =>
      \E r \in Req :
        /\ r[1] = k[1]
        /\ \/ served[r] > 0
           \/ req[r].state = "decode"
        /\ req[r].ctx >= (k[2] + 1) * BlockSize

\* The turns of a session are served in their order, each exactly once, and at
\* most one is outstanding; it is the one after the last served.
TurnsInOrder ==
  \A r \in Req :
    /\ served[r] = IF req[r].state = "done" THEN 1 ELSE 0
    /\ req[r].state # "absent" /\ ~IsFirst(r) => req[<<r[1], r[2] - 1>>].state = "done"

\* When nothing decodes and nothing is in prefill, nothing is resident: the
\* preemption in the stall branch of run() has nobody to preempt.
NothingToPreempt ==
  pc = "admit" /\ decoding = {} /\ In("prefill") = {} => Running = {}

\* A step never has more decodes than its token budget ("every running decode
\* consumes one token of budget"), as long as no step completes more prompts that
\* are whole in the cache, and cost nothing, than the others leave budget for.
DecodesWithinBudget == Cardinality(decoding) <= MaxBatched

\* run() raises only if the prompt at the head of the queue needs more blocks
\* than the pool has: with nothing running, every resident block can be
\* evicted, so no leak and no cached prefix can stall the scheduler.
StallOnlyWhenTooBig ==
  stall > 0 => waiting # <<>> /\ PromptBlocks(Head(waiting)) > Capacity

\* A closed loop keeps at most Concurrency sessions between their first
\* arrival and their last token, and exactly that many while there are
\* sessions to start.
ClosedLoopLoad ==
  ClosedLoop =>
    LET open == {s \in 1 .. started : \E r \in Req : r[1] = s /\ IsLast(r) /\ served[r] = 0}
    IN  /\ Cardinality(open) <= Concurrency
        /\ started < Len(Trace) => Cardinality(open) = Concurrency
        /\ live \subseteq open

\* Whoever has run before and was preempted waits ahead of whoever has not run
\* yet.
PreemptedGoFirst ==
  \A i, j \in 1 .. Len(waiting) :
    i < j /\ req[waiting[j]].scheduled => req[waiting[i]].scheduled

\* The loop serves every turn of every session.
EveryTurnServed == \A r \in Req : <>(served[r] > 0)

\* A turn is served once (tests/test_invariants.py,
\* test_every_turn_runs_exactly_once).
EachTurnOnce == \A r \in Req : served[r] <= 1
=============================================================================
