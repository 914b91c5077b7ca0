# Verification of agent-kv-retention

The repository simulates a continuous-batching LLM server under agent workloads, to compare
policies that decide which KV-cache blocks of a paused session to keep. Its core is a block
pool with a prefix cache (`sim/cache.py`) and a scheduler (`sim/engine.py`). Around it stand a
generator of workloads, five experiments, a replay of the same traces against a live vLLM server
and the scripts that calibrate the simulator's constants on a cluster. A leaked reference, a block
served before it was computed, a replay measured on a server of the round before or a report that
mixes two runs moves the numbers the repository reports, and nothing crashes.

This directory models these parts in TLA+, checks them with TLC on small instances and proves
theorems about them with TLAPS.

## 1. Inventory

| component | state | operations | interacts with |
|---|---|---|---|
| block pool (`sim/cache.py`) | `index` (key -> ref, full, ready), expired/protected queues, two heaps, stamps | `acquire`, `release`, `lookup_prefix`, `mark_full`, `mark_ready`, `_evict`, `_reap` | called by the scheduler |
| scheduler (`sim/engine.py` 253-479) | `waiting`, `running`, the requests, `stall_guard`, the loop's locals | one pass of `run`: drain, admit, chunk, clock, first tokens, next tokens, clean-up | pool, session driver, policies |
| session driver (`engine.py` 201-249, 375-391) | `pending_arrivals`, `_session_queue`, `_live_sessions` | `_init_sessions`, `_on_session_turn_done`, `_drain_arrivals` | scheduler |
| retention policies (`engine.py` 74-162) | none | rank of a released block, ten arms in two families | pool |
| workload generator (`sim/workload.py`) | random generator | `generate_sessions`, the cut to the context window | engine, replay |
| configuration (`sim/config.py`, `configs/base.json`) | dataclasses and a file | `load` with file over default, `replace` | everything |
| experiments (`experiments/`) | job grid, workers, rows, three files per directory | calibrate rates, `run_grid`, write rows, metadata and report, `--reanalyze` | simulator, configuration |
| replay (`bench/validate_vs_vllm.py`) | executor, threads, shared records; the server's counters | one thread per session, then the simulator's run, then the report | generator, simulator, live server |
| server rounds (`bench/*.sh`, `hpc/run_calibration.sh`) | server processes, a log file, shell variables, traps | kill, start, poll, read the pool, measure, clean up | replay, fits |
| fits and adoption (`bench/fit_*.py`, `bench/check_env.py`, `hpc/write_manifest.py`, `hpc/adopt_constants.py`) | the round's files, `sim/config.py`, the git tree | measure, write, guard, edit | configuration |
| rerun (`hpc/rerun_experiments.sh`) | the result directories | tests, five experiments, plots, with failure handling | experiments, adoption |
| analysis, plots, summary | none | statistics and pictures | result files |

What is hard in each:

* **Pool.** Sharing (system-prompt blocks belong to every session), all-or-nothing acquire with
  a feasibility check that must be exact, keys that exist already when they are to be created,
  blocks that are full but not computed, and lazy queues whose stale entries must be harmless.
  Correct means: reference counts equal the number of holders, the pool stays within its
  capacity, a positive feasibility check is honoured, and nothing uncomputed is handed out.
* **Scheduler.** Lists taken at the start of a pass are walked while preemptions change what
  they name; preemption may hit the requester, a request still in prefill, one that finished in
  the same step; the budget is computed twice. Correct means: turns run once and in order,
  contexts are covered by blocks, the budget is kept, seniority survives preemption, the stall
  guard fires for the right reason, and every turn is served eventually.
* **Session driver.** Causality between turns and the load of a closed loop.
* **Policies.** Arms that must coincide (`lru`, `const_ttl`, `lru_priority`; `predict` fed the
  truth and `belady`) and the mechanism that must not leak information between them.
* **Generator and replay.** The engine's assumptions on a trace are kept in another file; the cut
  may remove a session whose number the simulator uses as an index; a thread that fails is noticed
  only when its turn comes in the results; a server counts a prompt at every attempt to schedule it.
  Correct means: the report sums over the whole trace, both sides served the same turns, and its
  ratios are hit rates of requests whenever it says so.
* **Server rounds.** A process that outlives its kill still answers the port; one that dies or
  never comes up looks the same as a slow one; a handler runs in the middle of the script. Correct
  means: a result belongs to the server started for it, none is left running, and the script ends.
* **Fits, adoption, rerun.** Several programs write one directory, any of them may be killed, the
  label in the configuration is copied from one file while the values come from others, and most
  guards are in the script that calls the programs, not in the programs.
* **Experiments.** A headline and its interval are computed by different code over rows that need
  not be paired; three files are written one after the other and read together; an analysis of
  rows that lack an arm raises; a search need not converge.

`PROJECT.json` lists the hazards at their lines, with the properties that cover each.

## 2. Modules

| module | models |
|---|---|
| `PrefixCache` | the pool as a value and its operations, eviction victims left open |
| `Engine` | the scheduler and the session driver: the variables, one action per phase of a pass, the properties |
| `TurnService` | what the server promises its agents, without blocks or batches |
| `EngineService` | the refinement mapping from `Engine` to `TurnService` |
| `MCEngine` | traces for TLC |
| `Policies` | the ranks of the ten retention arms |
| `BlockPool` | the pool with the queues, heaps and stamps of both eviction families |
| `Lists` | loops over lists as recursive functions, which the prover can reason about |
| `PoolClient` | the scheduler as the pool sees it, with a clock |
| `CacheSystem` | that client with the pool of `PrefixCache`: the abstract pool |
| `PoolSystem` | that client with `BlockPool` under one arm, or two in lockstep; the refinement of `CacheSystem` |
| `MCPool` | work and lists of arms for TLC |
| `Workload` | the generator of sessions and the cut, as operators over the values of the random draws |
| `Replay`, `MCReplay` | the replay of a trace by threads against a server, and its simulation; traces for TLC |
| `ServerRound` | the three scripts that start, measure and stop servers |
| `Adoption`, `MCAdoption` | a calibration round's files, the adoption of constants and the rerun; nodes for TLC |
| `Experiments` | the grids and the reports of the five experiments, as operators over rows |
| `Study`, `MCStudy` | one experiment and its result directory; small grids and outcomes for TLC |
| `EngineProofs` | lemmas about the pool operations; types of `Engine`, capacity of the pool, exactness of the feasibility check |
| `ServiceProofs` | order of the turns, blocks of a context, seniority in the queue, the load of a closed loop, the steps of `TurnService`, the budget of a step |
| `BlockProofs` | reference counts, computed cache, the stall guard |
| `AdoptionProofs` | types, true labels and fresh results of `Adoption` |
| `RoundProofs` | types, own results and no survivors of `ServerRound` |
| `StudyProofs` | jobs and rows, calibration, reports, headlines and intervals of `Study` |
| `ReplayProofs` | `Workload`'s traces; threads, server, counters and simulator of `Replay` |
| `PoolProofs` | queues, heaps and order of eviction of `BlockPool`; its refinement of `CacheSystem`; arms that agree |

The compositions: `Engine` on `PrefixCache`, `PoolClient` on either pool, `Replay` on `Workload` and
`Study` on `Experiments`. `Engine` states as assumption what `Workload` is checked to produce
(`TraceFitsEngine`); `Adoption` takes from `ServerRound`'s subject only which programs run in which
order and may stop anywhere.

### 2.1 PrefixCache

A pool is the dictionary `BlockPool.index` as a function from keys to `[ref, full, ready]`.
Keys are `<<session, position>>`, with session 0 for the shared system prompt; a chain is the
set of its keys, since the order of a chain is the order of positions. `Acquired(p, hits, news)`
is the *set* of pools a successful `acquire` can leave: one for every set of evictable blocks of
the right size. Whatever is checked or proved of a client therefore holds for every policy arm
and for both eviction families. `last_used`, `protected_until` and the eviction counters are
left out: no decision of the scheduler reads them.

### 2.2 Engine

A pass of the loop of `Engine.run` is cut into phases, held in `pc`:

| `pc` | code | actions |
|---|---|---|
| `arrive` | 397-407 | `DrainOne`, `EnterAdmission`, `GoIdle`, `RunDone` |
| `idle` | 401-402 | `PauseElapses`, `Wake` |
| `admit` | 410-435 | `Admit`, `BeginStep`, `Stall` |
| `chunk` | 439-456 | `AllocateChunk`, `StartClock` |
| `step` | 458-462 | `PauseElapses`, `ClockAdvanced` |
| `emit` | 465-479 | `FirstToken`, `NextToken`, `EndStep` |

`FirstToken` and `NextToken` are whole handlers: `_emit_token` with `_grow_one_block`,
`_preempt_one`, `_finish` and `_on_session_turn_done`, written as operators on the pool and the
request table the step has produced so far.

Abstractions, and why they are sound for the properties:

* **Time.** The clock is not modelled. While it moves (`step`, `idle`) any pending arrival may
  become due, in any order, one by one or not at all; Poisson arrivals keep their order among
  themselves. Every ordering that some choice of pauses and step costs produces is a behaviour
  of the model. `pause` in a turn says only whether the pause is positive: a zero pause makes
  the next turn due at once, behind what is due already.
* **`running` and its order.** `running` is the set of requests with `admit # 0`. The loop walks
  its lists in admission order, and `running` is always in that order, so lists are sets walked
  oldest first. Only the order of `admit_seq` among running requests is ever read, so a new
  number is the least above them; this keeps the state space finite without a bound.
* **Counters and metrics** (`query_tokens`, `n_preemptions`, times) are left out, but
  `first_schedule_time >= 0` is kept as `scheduled`. Of the records, `served` keeps how many a
  turn has.
* **`generated` at admission** is what `_preempt_one` or the constructor left, as in the code,
  which does not reset it on admission.
* **The stall branch.** `run` first tries to preempt a resident request when nothing can run.
  `Stall` has no such case, and `NothingToPreempt` checks that there is never anyone to preempt.

Constants: `Capacity`, `SharedBlocks`, `PrefixCaching`, `Trace`, `BlockSize`, `MaxSeqs`,
`MaxBatched`, `ClosedLoop`, `Concurrency`. `TraceAssumption` states what `generate_sessions`
guarantees: every prompt begins with the system prompt and contains the whole previous turn.
No counter needs an artificial bound: the state space of every trace is finite.

The model was compared with the program: for instances of this size the states of the real engine
at the top of its loop, under many pauses and policies, are all reachable states of the model.

### 2.3 TurnService and EngineService

`TurnService` has sessions that ask and a service that answers, once per turn, within a load.
`EngineService` maps a session to "has asked" while a turn of it is waiting, in prefill or in
decode, and counts its answers in `served`. Preemption, eviction, chunking and the stall guard
must all be stuttering steps, and they are.

### 2.4 Policies, BlockPool, PoolClient, CacheSystem, PoolSystem

`BlockPool` is a second, full-detail model of `sim/cache.py`. The pool is a record whose fields
are those of the object: `index` with stamps and expiry times, the two ordered dictionaries as
sequences, the two heaps as sets of entries (a heap gives its entries up in the order of
`Before`, Python's order of tuples, and no two share a stamp). Heaps keep their stale entries,
as in the code, since what is checked is that stale entries do no harm. One call of `BlockPool`
is one operator, loops included; `_evict` and `_reap` are computed from the set of entries they
pop instead of entry by entry.

`PoolClient` is the scheduler reduced to what the pool can observe: which session holds how many
blocks, in which phase it is, and what time it is. Tokens, seats and budget are gone, so clients
interleave more freely than `Engine` lets them: whatever `PoolSystem` checks of the pool holds for
more call sequences than the scheduler produces. A turn is a record of block counts; `WorkAssumption`
repeats of it what `TraceAssumption` says in tokens. `ends` and `guess` are what a predictor says
of the turn.

`PoolSystem` has a list of *views*: an arm and what it is told of each turn (the truth and a
prediction; the truth as its prediction; a flat prediction; a false truth). Every call goes to
the pool of every view and the first decides how the client goes on. With one view this is the
program, and `ImplementsCache` states that it implements `CacheSystem`, the same client on the
pool `Engine` uses: the two models of `sim/cache.py` agree, and the victims `Engine` leaves open
include those of every arm (proved in `PoolProofs`). With two views it is a lockstep comparison: `SameCache` holds
only if both arms keep the same blocks after every call, hence the two runs are one.

`Rank` translates `_make_rank_fn` over integer times; priority ranks are the same pairs.

### 2.5 Workload and Replay

`Workload` has `generate_sessions` without its random generator: a *draw* holds the numbers a turn
gets (does the tool repeat, which one else, output length, pause, length of the result), and
`PromptOf`, `Output`, `Pause` and `ToolOf` make a session of a list of draws. `Truncate` is the cut
to the model's context window that `validate_vs_vllm.py` and two of the analyses apply: sessions
keep their numbers when others are removed.

`Replay` is `validate_vs_vllm.main`. The state of the executor is one future per session; a thread
is at one of the points of `run_session` (`at`); the main thread takes results in order, and an
exception surfaces at its turn, cancels what has not started and waits for the rest (`Raise`,
`Leave`).

The server is external and reduced to what the repository knows of it, its measurements included
(`docs/validation_findings.md`). It tries waiting requests in any order and counts queries and hits
at every attempt (`Query`): at the one that admits the request (`Schedule`) and at those that leave it
waiting (`Attempt`). It may preempt a request when any part of its prompt is computed (`Preempt`); the
blocks stay cached, and the request may find them again (`Found`). It may fail a request. `Requeries`
bounds attempts and preemptions together. It evicts nothing, so a request finds the most it can
find; that is the case in which the report's two hit rates ought to agree.

When the threads are done the simulator runs the same sessions (`Simulate`, `SimTurn`), with the
lookup of `sessions` by session number that `engine.py:239` has after *every* turn: a number past the
end of the list is an error, a number behind a hole another session. It may preempt (`SimPreempt`);
from then on its turns may find less.

### 2.6 ServerRound

One script at a time: `seeds_at_pressure.sh`, `sweep_admission.sh` or `run_calibration.sh`, chosen
at the start, with its commands as values of `pc`. They share their actions and differ where the
scripts do: only the first two kill what runs before they start and read the pool from the log, only
the first and the third trap signals, and the third stops after its first measurement, as it does in
the program (`fit_exit`, section 5). A server is `starting`, `up`, `stopping` (told to stop while
up: it may still answer), `ending` (told to stop before it was up) or `gone`. It comes up only when
no other process lives, since each asks for most of the GPU's memory; it may die at any moment and
need never react to a signal. `TERM` may arrive before any command; the handler kills the servers,
stores the status of the last command in the script's own `rc` and returns to the script.

### 2.7 Adoption

A round is a list of programs, run by the script or typed by hand, on a node the cluster chooses.
A value is represented by the rounds it was computed from, so `fit_batch.py`, which subtracts a
constant of the configuration from what it measured, gives a value of two rounds. `dirty` is what
`git status --porcelain` says. `check_env.py` writes its report before the verdict, and none without
torch. A failed check ends the script; a person who types the commands may go on, as nothing in
`fit_timing.py`, `fit_batch.py` or `write_manifest.py` asks for the verdict. `careless` records that
somebody did so, passed `--allow-dirty` to an edit of a dirty tree or committed a half-written round:
nothing protects against these three, `LabelTrue` is stated for everyone else, and what it costs to go
on after a failed check is in section 5. To go on after `fit_timing.py`,
which always ends with an error (`fit_exit`), is not counted: without it no round would have a
manifest, and the file it leaves is whole. The script itself never gets that far, so every manifest
is of a round typed by hand. A rerun runs its steps in order, loads the configuration as
`Config.load` does (`Loaded`: a key of the file before the default of the class) and may stop inside
a step with some of the three files of an experiment written.

### 2.8 Experiments and Study

`Experiments` has the grids as sets of jobs and the reports as operators over sets of rows, in exact
quotients of integers: means, headrooms, shares, the choice of the best constant, the pairing of
seeds. `BootstrapRatio` gives the point estimate and every value a resample may draw; its quantiles
are left out. A row carries its prefill tokens, the metric of every headline.

A mean is `None` without rows, `Truthy` is Python's `if lru`, and `PairedRaises`, `Exp02Raises` and
`Exp05Raises` say which rows the analyses cannot subtract, compare or look up.

`Study` is the process around them: `calibrate_rate` of exp03 (a rate is the list of corrections
made to the first guess; the live sessions a rate leads to are arbitrary, so convergence is never
assumed) and its file, a pool of workers that answer in any order, a job that raises, the three files
written one after the other, a kill anywhere that may leave the file being written cut, further runs
in the same directory and `--reanalyze` from what is there. A cut `runs.csv` ends within a row, which
`read_results` cannot convert, or after one: then any row may be missing, since the workers answered in
any order. A process ends with its report written and printed (`done`), with an exception before
`analysis.json` (`unreported`) or after it (`unprinted`).

## 3. Runs

| run | instance | distinct states | shows |
|---|---|---|---|
| `engine_open` | 4 sessions, 5 turns, 9 blocks of 2 tokens, 4 seats, budget 3, open loop, a last prompt of 20 tokens | 192,635 | types, references, capacity, exact feasibility, coverage, computed cache, order of turns, nobody to preempt at a stall, decode budget, seniority, the stall guard fires for the oversized prompt alone |
| `engine_service` | 3 sessions, 4 turns, 6 blocks, closed loop of 2, fair | 1,680 | closed-loop load, every turn served, refinement of `TurnService` with its fairness |
| `pool_arms` | 3 sessions, 5 turns, 5 blocks, times 0 to 2; `const_ttl`, `ttl_oracle`, `oracle_terminal`, `predict` alone, and twelve pairs of views over all arms but `ttl_oracle` | 237,148 | queues against references, no failed eviction, heap entries, order of eviction, pairs that are one policy keep the same blocks, refinement of `CacheSystem` |
| `server_round` | three scripts, 3 servers each, 2 polls, pools of 1 or 2 blocks, one signal, fair | 13,700 | results belong to their server, nothing left running, scripts end |
| `replay` | four traces of 3 sessions, cut at 10 tokens, 2 threads, one failure, one second attempt, one preemption in the simulator, fair | 97,467 | complete records, inflation and hit ratio, same turns on both sides, traces as the engine assumes them, the script ends |
| `adoption` | 2 rounds, 4 kinds of node, 2 reruns of 2 experiments | 102,373 | labels true of the constants, a complete rerun replaced every result |
| `study` | five experiments, 2 runs and one kill in a directory, 2 workers, 1 or 2 seeds, 3 refinements | 2,544,851 | headline and interval agree, no file is newer than the rows, whole files are reported, calibration keeps the closest rate |
| `one_token`, `fit_exit`, `base_config`, `mixed_round`, `content_model` | the same instances or smaller ones | | the findings of section 5 |

Why the bounds are enough.

* `engine_open`: the pool holds two and a half contexts for four seats, so there are preemptions at
  a first token and in mid-decode, of the asker itself, of a request still in prefill, of two
  requests in one step, readmission over a partly evicted prefix, system blocks held by several
  requests, and eviction of cached tails. The first prompt takes two steps, so that a second session
  can miss the shared block that the first has in the pool and has not computed. Block size 2 has
  both kinds of prompt, with and without a partial tail; a budget below the number of seats splits
  prompts over steps and leaves decodes out.
  The last prompt is larger than the pool, so every behaviour ends in the stall guard. Traces are
  small because one more turn multiplies the interleavings without adding a kind of event.
* `engine_service` has preemptions, each followed by progress.
* `pool_arms`: `MaxTime` cuts a run at the length of its longest pause, so protection lapses before,
  at and after a return. The pool of 5 blocks is smaller than two contexts of the work: there are
  refused admissions, preemptions, evictions of expired and of protected blocks, blocks held again
  from either queue with their heap entry left behind, and partial hits on the shared block.
* `server_round`: `MaxPolls` is 120 and 180 in the code; 2 has a server that is up at the first
  poll, at a later one, and too late. Three servers are one more than the pair a mix-up needs. Two
  pool sizes tell a server's own pool from another's. `Signals` 1: the handler returns to the
  script, so one signal at every moment has all its effects.
* `replay`: three sessions on two threads leave one to be queued, cancelled or taken later; the
  traces are whole, cut within a session, and cut so that the first or the last session disappears.
  `Faults`, `Requeries` and `SimPreempts` are one each: one failure at any point of any request, one
  attempt without a place or one preemption with any part of a prompt computed, one preemption in the
  simulator. A second of a kind adds to a counter what the first did.
* `adoption`: two rounds have a good one overwritten by one that dies; the nodes are one that passes,
  one of another architecture, one without a working kernel and one without torch; two reruns leave
  results of the first behind a failure of the second. All constants are pinned, as in
  `configs/base.json`.
* `study`: `Lives` are below, within and above the tolerance of the target, so a search ends at its
  first sample, later, or at `MaxRefinements` with the best of three. Three outcomes: one with a
  headroom at some points and none at others, one where Belady is worse than LRU for a seed, and one
  where all arms do the same. Two
  runs and one kill have a complete run over a cut one and the reverse. `MaxLost` 1: a cut file has
  lost one row, any of them, or all; one row is an arm of a point when there is one seed.

`CHECK_DEADLOCK FALSE` is set for the runs of `Adoption` and `Study`: their rounds,
runs and reruns are used up and nothing remains to be done. Everywhere else a state without a
successor is an error; finished programs stutter explicitly.

**Fairness.** `FairSpec` of `Engine` asks weak fairness of `Loop` (the loop is a `while True` that
never blocks) and strong fairness of `PauseElapses(r)` for each request (each pass moves the clock by
at least the step overhead, and the idle jump moves it to the next arrival, so a finite pause
passes; it is enabled only while the clock moves, hence strong). No fairness is assumed of the
choice of victims or of arrivals' order. `ServerRound` asks weak fairness of `ScriptStep`: every
command of a script returns, the polls sleep and the measurement has its own timeouts; nothing is
assumed of the servers, which need neither come up nor die. `Replay` asks weak fairness of
`ThreadStep`, `ServerStep` and `MainStep` as wholes: threads of a process are scheduled, pauses are
finite, and the server goes on with its requests; which request it takes is its own business.

Each property of a passing run has a mutant in `PROJECT.json`: a plausible bug in the mapped
code (`Mut_...` beside the original) under which the run fails.

## 4. Proofs

The theorems about `Engine` hold for every trace and every value of the constants under
`PoolAssumption`, `EngineAssumption` and `TraceAssumption`, and for every choice of eviction victims.
Eight assume `LongOutputs` as well: no output is a single token. They rest on `OrderInv`, and the finding
`one_token` shows that it fails without. Those about `Adoption` and `ServerRound` hold for any number
of rounds, nodes, reruns and experiments (`AdoptionAssumption`) and of servers, polls, pools and signals
(`RoundAssumption`). Those about `Replay` hold for any limit, concurrency, block size, failures and
preemptions (`ReplayAssumption`) and for every list of sessions that `generate_sessions` can return,
which is their hypothesis `FromGenerator`: each session is a `GenerateSession` of some draws, its
number is its place, it has a turn, and its system prompt holds the shared blocks. Those about
`Study` hold for any number of workers, runs, kills and refinements (`StudyAssumption`). Four of them assume
`DistinctJobs`, that the jobs of a grid differ in point, arm, ttl or seed; `Exp01Distinct` to
`Exp05Distinct` prove it of the five grids. `HeadroomsMatch` assumes `WholeGrids` as well: every point and
arm of a grid is run with each of finitely many seeds, and in exp05 every threshold has its reference jobs,
which `Exp01Whole` to `Exp05Whole` prove of the five grids; `CountsTokens`, that the simulator answers a
positive number of tokens; and a positive `MinHeadroom`. `WholeReported` assumes `ComparedGrids` instead
of the last: the grids of exp02 and exp03 have LRU, Belady and the oracle at every point
(`Exp02Compared`, `Exp03Compared`). The two theorems about the budget of a step assume what
their row says: `configs/base.json` has 64 seats and 8192 tokens, and a step may exceed its budget
where neither holds (section 5). Those about `PoolSystem` hold for any sessions
(`WorkAssumption`), capacity, TTL, oracle scale, length of run and lists of views
(`PoolAssumption`, `PolicyAssumption`, `ViewAssumption`). Five are about every pool of a list and
are stated under `[]SameCache`: once two runs have parted, the calls of the first say nothing about
the second. A run of one arm, which is what the program is, has nothing to part from, and
`OneRunIsSound` states the five of it without that hypothesis.

| theorem | states | assumes |
|---|---|---|
| `TypeCorrect` (`EngineProofs`) | `Spec => []TypeOK` | |
| `WithinCapacity` (`EngineProofs`) | `Spec => []CapacityRespected` | |
| `FeasibilityExact` (`EngineProofs`) | `Spec => []EvictionCannotFail` | |
| `TurnsServedInOrder` (`ServiceProofs`) | `Spec => []TurnsInOrder` | `LongOutputs` |
| `SpaceBeforeTokens` (`ServiceProofs`) | `Spec => []BlocksCoverContext` | |
| `SeniorityKept` (`ServiceProofs`) | `Spec => []PreemptedGoFirst` | `LongOutputs` |
| `LoadKept` (`ServiceProofs`) | `Spec => []ClosedLoopLoad` | `LongOutputs` |
| `SeatsWithinBudget` (`ServiceProofs`) | `Spec => []DecodesWithinBudget` | no more seats than tokens |
| `PromptsWithinBudget` (`ServiceProofs`) | `Spec => []DecodesWithinBudget` | no prompt ends with a block |
| `EngineServes` (`ServiceProofs`) | `Spec => Service!SInit /\ [][Service!SNext]_(Service!svars)` | `LongOutputs` |
| `ReferencesExact` (`BlockProofs`) | `Spec => []RefsMatchHolders` | `LongOutputs` |
| `CachedIsComputed` (`BlockProofs`) | `Spec => []CachedMeansComputed` | `LongOutputs` |
| `NobodyToPreempt` (`BlockProofs`) | `Spec => []NothingToPreempt` | `LongOutputs` |
| `StallsOnlyForSize` (`BlockProofs`) | `Spec => []StallOnlyWhenTooBig` | `LongOutputs` |
| `TypeCorrect` (`AdoptionProofs`, `RoundProofs`) | `Spec => []TypeOK` | |
| `LabelsTrue` (`AdoptionProofs`) | `Spec => []LabelTrue` | |
| `RerunsFresh` (`AdoptionProofs`) | `Spec => []RerunFresh` | |
| `NoneLeftRunning` (`RoundProofs`) | `Spec => []NothingLeftRunning` | |
| `ResultsOwnServer` (`RoundProofs`) | `Spec => []OwnServer` | |
| `EveryJobOnce` (`StudyProofs`) | `Spec => []TypeOK` | `DistinctJobs` |
| `ClosestKept` (`StudyProofs`) | `Spec => []CalibrationKeepsClosest` | `DistinctJobs` |
| `FilesOrdered` (`StudyProofs`) | `Spec => []FilesInOrder` | |
| `WholeReported` (`StudyProofs`) | `Spec => []WholeRowsReported` | `DistinctJobs`, `WholeGrids`, `ComparedGrids`, `CountsTokens` |
| `HeadroomsMatch` (`StudyProofs`) | `Spec => []HeadroomIsPoint` | `DistinctJobs`, `WholeGrids`, `CountsTokens`, `MinHeadroomPositive` |
| `TraceFits` (`ReplayProofs`) | `Spec => []TraceFitsEngine` | `FromGenerator` |
| `ReplayTyped` (`ReplayProofs`) | `Spec => []TypeOK` | `FromGenerator` |
| `EveryTurnRecorded` (`ReplayProofs`) | `Spec => []RecordsComplete` | `FromGenerator` |
| `InflationTold` (`ReplayProofs`) | `Spec => []InflationExact` | `FromGenerator`, a shared block |
| `LingersOnlyCut` (`ReplayProofs`) | `Spec => []OnlyCutSessionsLinger` | `FromGenerator` |
| `HitsWithin` (`ReplayProofs`) | `Spec => []HitsWithinSimulator` | `FromGenerator`, a shared block |
| `SimulatesTheTurns` (`ReplayProofs`) | `Spec => []SameTurns` | `FromGenerator` |
| `PoolImplementsCache` (`PoolProofs`) | `Spec => ImplementsCache` | |
| `QueuesAlwaysMatch` (`PoolProofs`) | `Spec /\ []SameCache => []QueuesMatchRefs` | |
| `HeapAlwaysFinds` (`PoolProofs`) | `Spec /\ []SameCache => []HeapFindsEvictable` | |
| `NoEvictionFails` (`PoolProofs`) | `Spec /\ []SameCache => []NeverRaises` | |
| `ProtectionAlwaysRespected` (`PoolProofs`) | `Spec /\ []SameCache => ProtectionRespected` | |
| `LowestRankAlwaysFirst` (`PoolProofs`) | `Spec /\ []SameCache => LowestRankFirst` | |
| `AlikeArmsAgree` (`PoolProofs`) | `Spec => []SameCache` | views that rank alike |
| `OneRunIsSound` (`PoolProofs`) | `Spec` implies what the five above conclude | one view in each list |

* **Types.** `TypeOK` alone is not inductive: the stall counter stays below its bound only while
  the loop has not stopped, so `TypeInv` adds that `pc # "stalled"` implies `stall <= StallLimit`.
  `FirstToken` and `NextToken` share `EmitTokenType`, which rests on what the lemmas before it say
  of `Acquired` and `Release`.
* **Capacity.** `CapacityInv` adds that the pool is finite. `AcquiredFits` shows that an acquire
  leaves room whatever victims it takes. For the converse, `AcceptedCanEvict` shows that a request
  the check accepts has a set of victims of the right size (`SubsetOfSize`), since hits that are
  held first leave the evictable blocks by exactly the number the check subtracts; `HitsUnique`
  shows that the prefix a request is checked with is the one it is admitted with.
* **Order.** `OrderInv` ties together the three records a request leaves: its state, its place in
  the queues and its `admit_seq`. `QueuesOK` says that `waiting` and `due` hold requests of their
  state, each once; `TurnsOK` extends `TurnsInOrder` by the sessions that have not started and by
  tokens that exist only in decode; `AdmitOK` says that running requests have distinct numbers and
  are busy, or finished in this step (`FinishedNow`). The last is the heart of it: a request that
  finished in this step is still in `running` with its keys, and `VictimBusy` shows that the
  preemption that takes the newest one never picks it, because everyone who has yet to emit is
  newer. With outputs of one token a request finishes among the first tokens, before older ones
  have decoded, and the argument breaks where the program does.
* **References.** `RefsOK(p, C)` says that the counts of pool `p` are those of a table `C` of who
  holds what. `RefsAcquire` and `RefsRelease` say how one acquire or release moves it, `Held`
  reads the table off the requests, and each action is a composition of the two: a growth, a
  growth and a release, a release, or an acquire. An eviction takes only blocks of count zero,
  which nobody holds; a release drops a block only if its count says that the releaser was the
  last holder. Busy victims (`VictimBusy`) matter here too: a request released twice would take
  references that are not its own.

* **Space.** `CoverOK` is inductive with the types alone. A context grows by one token, and
  `NeedsBlock` asks for a block exactly when the last one is full; what finishes, is preempted or is
  pushed has no context to cover.
* **Stalls.** `ServiceInv` puts the order, the references and the capacity together with `LoopOK`:
  in the admission phase `decoding` still names everything in decode, and an empty `running` means
  that somebody waits and the budget is whole. At a stall nothing runs (`NothingResident`), so no
  block is held (`NothingHeld`), and then a prompt is refused only for its size (`FitsBySize`). That
  needs three facts about the pool: a chain of n blocks has n keys (`ChainLength`), hits that are
  held and misses that are made together never exceed the capacity (`AcceptedFits`), and a lookup
  always has an answer (`HitExists`, the minimal rest of the chain). Once stalled, the head of the
  queue stays until it is admitted, which its size forbids.
* **Seniority.** `SeniorInv` adds to the property that whoever runs has been scheduled and whoever has
  yet to arrive has not. A preemption puts a scheduled request at the front, an arrival one that is
  not at the back, and `OrderInv` says that neither is in the queue already.
* **Budget.** With no more seats than tokens, `SeatsOK` suffices: what decodes is in `running`, and
  `running` stays within the seats. Without that, `WorkOK` follows the budget through the chunk
  loop: decodes, prompts completed so far and the budget left never exceed `MaxBatched`, and who is in
  prefill still lacks a token of its prompt, so that it takes one from the budget before it decodes. A
  lookup returns whole blocks, so a prompt that ends inside one is never found whole.
* **Labels.** `LabelInv` adds `ManifestOk`, that somebody was careless unless the manifest is the copy of
  a passed check and the round past its check has passed it, and `CleanIsWhole`, that a clean tree nobody
  was careless with holds the files of one whole round. An adoption without `--allow-dirty` finds a
  clean tree.
* **Reruns.** `BehindIsFresh` says that the experiments behind the current command were written by
  this rerun; a rerun completes only at the end of its list.
* **Servers.** `CodeOk`: only a killed script reaches its end without the kill before it. For
  `ResultsOwnServer` the chain is `StartingIsOwn` (whatever is booting was launched in this step),
  `LogIsOwn` (the log was truncated at the launch and a server boots only alone, so a pool in the
  log is that of the only process alive), `BlocksFromLog` and `ResultsAreOwn`.

* **Computed cache.** `ComputedInv` adds to references and order that the context of a request is its
  prompt and what it has generated (`ContextOK`), that a block without a holder is usable, that every
  usable block outside the shared ones was computed by a request of its session, and that a full block
  in the chain of a request lies within that request's context (`CachedOK`): who marks a block ready has
  computed it. A block that is made again under an old key starts unready.
* **Load and service.** `LoadOK` counts: the sessions between their first arrival and their last
  token are `Concurrency` less the ones the queue no longer has. `EngineServes` takes each action to one
  of `TurnService` or to a stutter; an answer is a turn's last token, and `OrderInv` says that the turn
  was asked for and not answered before. The liveness part of `ImplementsService` is not proved.
* **Jobs and rows.** The invariant of `EveryJobOnce` says that queue, busy jobs and rows share no
  job and together are the grid; a row stands for its job because the jobs of a grid are distinct in the four
  fields a row keeps. Calibration needs that no sample of the present search was within the tolerance.
* **Files.** `FilesInv` says that a run past a file has written it and that files are of runs that were
  started: each is written after the one it must not precede, and a kill only cuts or leaves it.
  `WholeReported` starts from `WholeFile`: a file that is not cut has a row for every job of a whole grid
  (`RowsInv`, below), so every mean that is subtracted is over all seeds, and, with positive counts, no
  mean of LRU is zero (`MeanIsTruthy`); a share in exp05 is then `None` only where the gap is zero.
* **Traces.** Prompts, kept sessions and the cut are recursive functions. That such a function exists
  up to a given length (`RecursionUpTo`) and what holds of all its values (`UpTo`) come from the least
  number of a finite set (`LeastBelow`), without the induction theorems of the library. `PromptRecursion`
  then gives the loop of `generate_sessions`, `TruncateKept` the filter over the sessions, `SessionsFacts`
  what a kept session is: the beginning of a generated one, under its old number, in a list without
  repeated numbers.
* **Replay.** `ThreadOK` places a thread by its future and its label and says what it has recorded;
  `MainOK` that results are taken only of futures that are done. While no prompt was tried twice, what
  the server has of a session is the prompt of the last turn that was answered, which bounds `hits`; from
  there to the simulator's blocks is one monotone division. `SameInv` follows the simulator's queue: the
  sessions before some `k` are started and each either has exactly one step to go or is served to its
  end, and the queue is empty when no request is live. A session that is looked up under a number that
  is not its place either runs past the list, which ends the script, or has the turns of another; the
  largest number is past the list as soon as there is a hole, so no report is written then.
* **Sums.** A fold over a set has no induction here, so a sum of natural numbers is a count: as many
  dots `<<x, 1>>`, `<<x, 2>>`, ... as the number at `x` says, over all `x` (`Dots`, `SumIsDots`). Cardinalities
  of unions and the library's bijections then do the arithmetic.
* **Inflation.** `CountInv` says that the counter of queries is at the tokens of the prompts scheduled so
  far, each counted once, and above them as soon as an attempt was made again, unless a session failed in
  between; `HitInv` that the counter of hits is at the blocks found for the same prompts as long as there was
  no second attempt. When the report is written every turn was scheduled and is recorded
  (`EveryTurnRecorded`), so both sides count the same prompts. Another attempt adds at least one
  token because a prompt has the shared blocks; this is what `SharedBlocks > 0` is for, and through it
  `HitsWithin` knows that with inflation 1 no request had a second attempt.
* **Headlines.** `RowsInv` says that while the grid runs a job without a row is still queued or out, so
  the rows that are written answer the whole grid, and so does every file that is not cut. Then an arm
  has at a point either all seeds or no seed (`CompleteRows`), the paired seeds are all seeds or none,
  and the fold over an enumeration of the seeds is the sum over their set (`SumInOrder`): the seeds cancel
  out of the quotients (`GainAgrees`, `ShareAgrees`, `RatioAgrees`). In the collapse test the
  seeds common to all conditions are all seeds, so both sides choose among the same finitely many headrooms
  (`Extremes`, `CollapseAgrees`). A calibration, a kill or a reanalysis only moves whole files.
* **Pool.** `PoolOK` is the invariant of one `BlockPool`: an evictable block is in exactly one of
  `expired`, `protected` and `evictable`, the queues are lists without repetition, a protected block,
  or an evictable one of the priority family, has a heap entry that counts, no two entries share a stamp, the protected stand in the order of
  their release and the expired have lapsed. Each loop of the code is a recursive function
  (`Each`, `Without`), which exists up to the length of its list (`HoldWalk`, `ReleaseWalk`, ...)
  and keeps `PoolOK` step by step. `_reap` and `_evict` pop a finite, totally ordered set of entries
  (`HeapOrdered`), and `EvictQueued` and `EvictRanked` take as many blocks as the check promised
  (`RoomKeeps`), each before every one they spare (`LowestRespects`). `AcquireKeeps` says that
  `acquire` is done exactly when `CanAcquire` of `PrefixCache` holds, refused otherwise, and never
  raises.
* **Pool and sessions.** `release` is called on held blocks only, which is `RefsOK`: the counts are those
  of the chains the sessions hold (`ClientOK`). A released key that nobody held would enter a queue
  twice, and `PoolOK` would be gone; this is why the pool alone has no such theorem.
* **Implementation.** Every method is, on `Contents`, the operation of `PrefixCache` of the same name:
  the marks (`SetKeeps`), `Hold` and `Materialise`, `Release` (`ReleasedContents`), and a member of
  `Acquired` (`AcquireKeeps`). `PoolImplementsCache` takes each action to the one of `CacheSystem`, and a refused
  admission to a stutter; it needs the first pool only and no `SameCache`.
* **Agreement.** Views that rank alike have the same pool, entry by entry (`Twins`): an arm told the truth
  or a falsehood that may not look at it, a predictor that is right and its oracle, where the oracle
  scales pauses by one.

`OrderInv`, `CapacityInv` and the holding table were checked with TLC before they were proved.

Model-checked only: everything under fairness (`EveryTurnServed`, `RoundEnds`, `ReplayEnds` and the
liveness of `TurnService`), which the prover does not handle; and the three pairs of `SameCache` whose pools
differ while their caches agree (`lru` with `const_ttl`, with `lru_priority` and with a prediction that
says nothing), since `AlikeArmsAgree` compares pools entry by entry. Every other invariant and action
property of a passing run is stated by a theorem; for `DecodesWithinBudget` and `SameCache` under the
conditions in the table. `HitsWithin` is about a property that no run lists: TLC checked it on the
instance of `replay` before it was proved, and the finding `content_model` is its other half.

## 5. Findings

Five statements of the repository about itself are not true of its code. Each run states one of them
and shows a shortest counterexample.

1. `one_token`: a request that finishes with its first token can be preempted after it finished, by
   an older one in the same step, since its keys are still set (`engine.py:321`); it runs again, and
   its turn has two records (`tests/test_invariants.py:79` expects one). Only outputs of one token
   are affected; the other runs use longer ones.
2. `fit_exit`: `fit_timing.py:359` writes its file and then prints `e.prefill_tps`, which
   `EngineConfig` does not have. Every run ends with an error, `run_calibration.sh:137` takes it for
   a failed measurement, and a round never reaches the batch fit, the replays or the manifest that
   `run_calibration.sh:22` lists as its products.
3. `base_config`: `adopt_constants.py` edits the class defaults of `sim/config.py`, and every
   experiment loads `configs/base.json`, whose engine section gives all five constants a value of
   its own. The rerun is therefore not "on whatever constants sim/config.py currently holds"
   (`rerun_experiments.sh:2`).
4. `mixed_round`: `fit_batch.py:118` subtracts the KV term of the constant in `sim/config.py`, the one
   of the round before, so an adopted `decode_s_per_seq` is not from "one platform, one round"
   (`adopt_constants.py:6`).
5. `content_model`: `run_session` continues a prompt with fresh tokens and never with what the server
   answered, while the simulator counts the output as context: where prompt and output fill a block
   the prompt alone does not, the simulator finds it and the server cannot.
   `validate_vs_vllm.py:134` says that the prompts "mirror the simulator's content model exactly".

Observations without a run of their own, first seven more statements that the code does not keep; each
can be followed in the model named:

* `validate_vs_vllm.py:274-275` says "Anything above 1.0 means requests were preempted and re-queried".
  The counter grows with every attempt to schedule a request (`Attempt` of `Replay`), so one that waits for
  blocks inflates it as well. `docs/validation_findings.md:186-192` measured 4.23 with three
  preemptions; the comment is the reading that document withdrew. `InflationExact` therefore speaks of
  attempts, not of preemptions.
* The same script "only trusts the comparison when both read 1.000" (`validate_vs_vllm.py:44-45`) and prints
  "Inflation is 1.000 on both sides" (346), but line 338 asks the server's number alone. The simulator
  preempts, in mid-decode (`engine_open`, `SimPreempt`), and its inflation is then above 1 in the same report.
* `validate_vs_vllm.py:29-30` says that turns are dropped "from BOTH sides, so the comparison stays exact".
  When the cut leaves nothing of a session, the sessions behind it keep their numbers in a shorter list,
  `engine.py:239` indexes the list by number, and the simulation ends with an `IndexError` after a replay
  without an error (`SimTurn`; the trace `First` of `replay`). `SameTurns` says that no report is written then.
* `write_manifest.py:52` asks only that `env.json` exists, and `check_env.py:149-151` writes it before its
  verdict. A person who types the commands and goes on after a failed check, or after one without torch
  that left the report of an earlier round, gets the manifest that "would assert a platform nobody
  verified" (`write_manifest.py:53-54`), and adoption quotes it. `LabelTrue` excludes it as `careless`.
* `README.md:86-87` says that `--reanalyze` redoes the analysis over the rows that are there. A run of exp04
  or exp05 that is killed after `runs.csv` and before `metadata.json` leaves its rows beside the metadata of
  the run before, and `--reanalyze` reports the new rows with the old predictors' quality
  (`exp04_predictor.py:328-330`). `FilesInOrder` excludes only the reverse.
* `README.md:86` offers `--reanalyze` for "any of them". Where LRU and Belady do the same, exp05's share is
  `None` (`exp05_threshold.py:127-128`) and `print_report` multiplies it by 100 (153): a `TypeError` after
  `analysis.json` is written, for the run and for its reanalysis. `WholeRowsReported` excepts it.
* `cache.py:41` says "among expired blocks the order is by expiry time". They are ordered by when they join
  the queue: a block released with a TTL of zero joins at once (`cache.py:237`), ahead of blocks whose
  protection lapsed earlier and that nobody has reaped. Only `ttl_oracle` has both. `ProtectionRespected` is
  about protected blocks and does not see the order among lapsed ones.

* Preemption puts its victim at the front of the queue, and it is readmitted, into the room it gave
  up, before the sequence that ran out of blocks asks again (`engine.py:310`). Two requests that fit
  the pool one at a time can recompute each other forever; `engine_service` has a pool in which they
  cannot.
* A single request whose prompt fits and whose context does not preempts itself forever; the loud
  failure of `engine.py:420` covers only prompts.
* A prompt found whole in the cache enters decode without spending budget (`engine.py:417`), so
  a step can then have more decodes than `max_num_batched_tokens`. No step of `engine_open` has enough
  such prompts for that, and `DecodesWithinBudget` holds there. It is proved for configurations with no more
  seats than tokens (`SeatsWithinBudget`) and for traces without such prompts (`PromptsWithinBudget`).
* A failed acquire has reaped before it fails (`cache.py:176`, `cache.py:181`). References and content
  are untouched, which `ImplementsCache` shows: the refused call stutters in `CacheSystem`.
* `validate_vs_vllm.py:98` says that the simulator never preempts. It does, in mid-decode, as
  `engine_open` shows: admission reserves nothing for the output.
* `run_calibration.sh` measures whatever answers the port; it neither kills first nor reads a pool,
  so `OwnServer` is stated for the two scripts that do.
* `ImplementsCache` lets a refused admission stutter, so it would not notice a pool that refuses too
  often; `StallOnlyWhenTooBig` and the exact check of `EvictionCannotFail` are about that side, in `Engine`.
* `CachedMeansComputed` leaves out the blocks of the system prompt, which any session may have computed.
* In rows that lack an arm exp04 reports a headroom of zero instead of an error (`exp04_predictor.py:214`),
  where exp02 and exp03 raise. Only a cut `runs.csv` has such rows.
* In a cut `runs.csv` headline and interval may be over different seeds; `HeadroomIsPoint` is about whole
  grids.

## 6. Not modelled

* **Timing and cost, the summary.** Real numbers; no scheduling state depends on them beyond the
  order of arrivals, which is arbitrary here.
* **Predictor training** (`exp04`), `seed_sufficiency.py`, the least squares of the fits and
  `fit_workload.py`: floating-point statistics over data that is given. What they read and write,
  and when, is in `Study` and `Adoption`.
* **Bootstrap quantiles.** `BootstrapRatio` has the point and the draws; the interval is two
  percentiles of a sample.
* **Plots, reports printed to the terminal, environment probes, the command line of the simulator,
  recorded results and documents.** They keep no state and decide nothing.
* **`Config.save`, the dotted-path parser, `kv_pool_blocks_from_memory`.** A copy, a check of names
  and one formula.
* **vLLM itself.** External: `Replay` and `ServerRound` have what the repository's scripts can see of
  it.
