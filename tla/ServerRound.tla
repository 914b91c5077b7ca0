---------------------------- MODULE ServerRound ----------------------------
(***************************************************************************)
(* The shell scripts that start vLLM servers, measure them and stop them:  *)
(* bench/seeds_at_pressure.sh ("seeds"), bench/sweep_admission.sh          *)
(* ("sweep") and hpc/run_calibration.sh ("hpc").  A round has Steps        *)
(* servers, one after the other, on one port and one log file.  The        *)
(* scripts know a server only by what answers the port, by the processes   *)
(* pkill and pgrep match, and by the last pool line of the log; a server   *)
(* told to stop answers until it exits.  Server 0 is one that was running  *)
(* before the script started.                                              *)
(***************************************************************************)
EXTENDS Integers, FiniteSets

CONSTANTS Steps,      \* servers a round starts
          MaxPolls,   \* polls before a script gives up (120 and 180 in the code)
          Pools,      \* pool sizes, in blocks, a server may come up with
          Expected,   \* EXPECTED_POOL of the seeds script
          Signals     \* TERM signals the script may receive

ASSUME RoundAssumption ==
  /\ Steps \in Nat \ {0} /\ MaxPolls \in Nat /\ Signals \in Nat
  /\ Pools \subseteq Nat \ {0} /\ Expected \in Pools

VARIABLES
  script,    \* which of the three scripts runs
  pc,        \* the command it is at
  step,      \* the server it is busy with
  polls,     \* polls of the readiness loop so far
  blocks,    \* the pool read from the log for this server
  poolSeen,  \* pool_seen of the sweep script; 0 while it is empty
  rc,        \* the shell variable rc, which the handler writes too
  code,      \* how the script ended
  server,    \* what each server's process does
  pool,      \* the pool a server came up with
  log,       \* the pool the log file shows, 0 while it shows none
  serving,   \* the server the running measurement talks to
  results,   \* the measurements that were written
  signals    \* signals still to come

shell   == <<script, step, polls, blocks, poolSeen, rc, code, signals>>
servers == <<server, pool, log>>
vars    == <<shell, servers, pc, serving, results>>

Server == 0..Steps

Alive == {s \in Server : server[s] \in {"starting", "up", "stopping", "ending"}}

\* A process that was up when it was signalled may answer until it exits.
Answering == {s \in Server : server[s] \in {"up", "stopping"}}

Signalled ==
  [s \in Server |-> CASE server[s] = "starting" -> "ending"
                      [] server[s] = "up"       -> "stopping"
                      [] OTHER                  -> server[s]]

KillsFirst == script \in {"seeds", "sweep"}
Traps      == script \in {"seeds", "hpc"}

\* The calibration server is measured without reading its pool.
ReadsPool == script # "hpc"

Init ==
  /\ script \in {"seeds", "sweep", "hpc"}
  /\ pc = IF KillsFirst THEN "kill" ELSE "env"
  /\ step = 1 /\ polls = 0 /\ blocks = 0 /\ poolSeen = 0 /\ rc = 0
  /\ code = "running" /\ signals = Signals
  /\ \E left \in {"none", "up"} : server = [s \in Server |-> IF s = 0 THEN left ELSE "none"]
  /\ \E p \in Pools : pool = [s \in Server |-> IF s = 0 THEN p ELSE 0]
  /\ log = 0 /\ serving = 0 /\ results = {}

(***************************************************************************)
(* The script                                                              *)
(***************************************************************************)

\* exit: what is left to run is the kill before the exit, or the EXIT trap.
Exit(c) == code' = c /\ pc' = "cleanup"

Goto(label) == pc' = label /\ UNCHANGED code

CheckEnv ==
  /\ pc = "env"
  /\ Goto("launch") \/ Exit("failed")
  /\ UNCHANGED <<servers, script, step, polls, blocks, poolSeen, rc, signals, serving, results>>

KillFirst ==
  /\ pc = "kill"
  /\ server' = Signalled
  /\ Goto("launch")
  /\ UNCHANGED <<pool, log, script, step, polls, blocks, poolSeen, rc, signals, serving, results>>

\* A launch that appends to the log.
Mut_Launch ==
  /\ pc = "launch"
  /\ server' = [server EXCEPT ![step] = "starting"]
  /\ polls' = 0 /\ blocks' = 0
  /\ Goto("poll")
  /\ UNCHANGED <<log, pool, script, step, poolSeen, rc, signals, serving, results>>

\* The redirection truncates the log.
Launch ==
  /\ pc = "launch"
  /\ server' = [server EXCEPT ![step] = "starting"]
  /\ log' = 0
  /\ polls' = 0 /\ blocks' = 0
  /\ Goto("poll")
  /\ UNCHANGED <<pool, script, step, poolSeen, rc, signals, serving, results>>

PollReady ==
  /\ Answering # {} /\ polls < MaxPolls
  /\ UNCHANGED polls
  /\ Goto(IF ReadsPool THEN "pool" ELSE "measure")

\* A loop that polls once too often, and one that forgets to count.
Mut_PollAgain ==
  /\ Alive # {} /\ polls <= MaxPolls
  /\ polls' = polls + 1
  /\ Goto("poll")

Mut_PollAgainUncounted ==
  /\ Alive # {} /\ polls < MaxPolls
  /\ UNCHANGED polls
  /\ Goto("poll")

PollAgain ==
  /\ Alive # {} /\ polls < MaxPolls
  /\ polls' = polls + 1
  /\ Goto("poll")

PollGivesUp ==
  /\ Alive = {} \/ polls = MaxPolls
  /\ UNCHANGED polls
  /\ Exit("failed")

Poll ==
  /\ pc = "poll"
  /\ PollReady \/ PollAgain \/ PollGivesUp
  /\ UNCHANGED <<servers, script, step, blocks, poolSeen, rc, signals, serving, results>>

\* An empty match divides to 0 blocks in the seeds and sweep scripts.
PoolAccepted ==
  CASE script = "seeds" -> log = Expected
    [] script = "sweep" -> poolSeen = 0 \/ log = poolSeen

ReadPool ==
  /\ pc = "pool"
  /\ blocks' = log
  /\ poolSeen' = IF script = "sweep" /\ poolSeen = 0 THEN log ELSE poolSeen
  /\ IF PoolAccepted THEN Goto("measure") ELSE Exit("failed")
  /\ UNCHANGED <<servers, script, step, polls, rc, signals, serving, results>>

\* validate_vs_vllm divides by the pool before it sends anything.
MeasureStart ==
  /\ pc = "measure"
  /\ ReadsPool => blocks # 0
  /\ serving' \in Answering
  /\ Goto("measuring")
  /\ UNCHANGED <<servers, script, step, polls, blocks, poolSeen, rc, signals, results>>

\* fit_timing, the first measurement of the calibration, exits with 1 after it
\* has written its file: EngineConfig has no prefill_tps to compare with.  What
\* the script would do after it is never reached.
MeasureOk ==
  /\ pc = "measuring" /\ serving \in Answering
  /\ results' = results \cup {[step |-> step, server |-> serving, pool |-> blocks]}
  /\ IF script = "hpc" THEN rc' = 1 /\ Exit("failed") ELSE rc' = 0 /\ Goto("stop")
  /\ UNCHANGED <<servers, script, step, polls, blocks, poolSeen, signals, serving>>

MeasureFails ==
  /\ pc \in {"measure", "measuring"}
  /\ IF script = "hpc" THEN Exit("failed") ELSE Goto("stop")
  /\ rc' = 1
  /\ UNCHANGED <<servers, script, step, polls, blocks, poolSeen, signals, serving, results>>

Stop ==
  /\ pc = "stop"
  /\ server' = Signalled
  /\ Goto("verdict")
  /\ UNCHANGED <<pool, log, script, step, polls, blocks, poolSeen, rc, signals, serving, results>>

NextServer ==
  /\ step < Steps
  /\ step' = step + 1
  /\ Goto("kill")

LastServer ==
  /\ step = Steps
  /\ UNCHANGED step
  /\ Exit("complete")

Verdict ==
  /\ pc = "verdict"
  /\ \/ rc = 0 /\ (NextServer \/ LastServer)
     \/ rc # 0 /\ Exit("failed") /\ UNCHANGED step
  /\ UNCHANGED <<servers, script, polls, blocks, poolSeen, rc, signals, serving, results>>

\* A handler that only reports.
Mut_CleanUp ==
  /\ pc = "cleanup"
  /\ Goto("end")
  /\ UNCHANGED <<servers, script, step, polls, blocks, poolSeen, rc, signals, serving, results>>

CleanUp ==
  /\ pc = "cleanup"
  /\ server' = Signalled
  /\ Goto("end")
  /\ UNCHANGED <<pool, log, script, step, polls, blocks, poolSeen, rc, signals, serving, results>>

\* The handler of EXIT runs for TERM too.  It kills the servers, stores the
\* status of the command that just ended in rc, and returns to the script.
TrapHandler ==
  /\ Traps /\ pc # "measuring"
  /\ server' = Signalled
  /\ rc' \in IF pc = "verdict" THEN {0, 1} ELSE {0, rc}
  /\ UNCHANGED <<pc, code>>

\* Without a trap TERM ends the script, and setsid keeps the server.
DefaultAction ==
  /\ ~Traps
  /\ pc' = "end" /\ code' = "killed"
  /\ UNCHANGED <<server, rc>>

Term ==
  /\ signals > 0 /\ pc # "end"
  /\ TrapHandler \/ DefaultAction
  /\ signals' = signals - 1
  /\ UNCHANGED <<pool, log, script, step, polls, blocks, poolSeen, serving, results>>

(***************************************************************************)
(* The servers                                                             *)
(***************************************************************************)

\* Each asks for most of the GPU's memory, so one cannot come up beside
\* another that still holds it.
Boot(s) ==
  /\ server[s] = "starting" /\ Alive = {s}
  /\ server' = [server EXCEPT ![s] = "up"]
  /\ \E p \in Pools : pool' = [pool EXCEPT ![s] = p] /\ log' = p
  /\ UNCHANGED <<shell, pc, serving, results>>

Dies(s) ==
  /\ s \in Alive
  /\ server' = [server EXCEPT ![s] = "gone"]
  /\ UNCHANGED <<shell, pool, log, pc, serving, results>>

Ended == pc = "end" /\ UNCHANGED vars

ScriptStep ==
  \/ CheckEnv \/ KillFirst \/ Launch \/ Poll \/ ReadPool \/ MeasureStart
  \/ MeasureOk \/ MeasureFails \/ Stop \/ Verdict \/ CleanUp

Next ==
  \/ ScriptStep \/ Term \/ Ended
  \/ \E s \in Server : Boot(s) \/ Dies(s)

Spec == Init /\ [][Next]_vars

\* Every command of a script returns; nothing is assumed of the servers.
FairSpec == Spec /\ WF_vars(ScriptStep)

(***************************************************************************)
(* Properties                                                              *)
(***************************************************************************)

Labels == {"env", "kill", "launch", "poll", "pool", "measure", "measuring",
           "stop", "verdict", "cleanup", "end"}

\* A script never polls more often than it may, and whatever it reads from the
\* log or writes is a pool some server came up with.
TypeOK ==
  /\ script \in {"seeds", "sweep", "hpc"} /\ pc \in Labels
  /\ step \in 1..Steps /\ polls \in 0..MaxPolls
  /\ {blocks, poolSeen, log} \subseteq Pools \cup {0}
  /\ rc \in {0, 1} /\ signals \in 0..Signals
  /\ code \in {"running", "complete", "failed", "killed"}
  /\ server \in [Server -> {"none", "starting", "up", "stopping", "ending", "gone"}]
  /\ pool \in [Server -> Pools \cup {0}] /\ serving \in Server
  /\ results \subseteq [step : 1..Steps, server : Server, pool : Pools \cup {0}]

\* Every replay was measured on the server started for it and carries that
\* server's own pool: a poll answered by a server that was told to stop, or by
\* one that was there before the round, never ends in a result (the pool is
\* read from a log that the launch truncated).
OwnServer ==
  \A r \in results : script # "hpc" => r.server = r.step /\ r.pool = pool[r.server]

\* However a script with its handlers ends, with signals in between or not,
\* no server is left that was not told to stop.
NothingLeftRunning ==
  pc = "end" /\ code # "killed" => \A s \in Server : server[s] \notin {"starting", "up"}

\* Whatever the servers do -- never come up, never exit, die -- the script ends.
RoundEnds == <>(pc = "end")

\* A round produces what it measures (hpc/run_calibration.sh:22, "WHAT IT
\* PRODUCES"): no script fails because of a measurement that succeeded.
SuccessGoesOn ==
  [][results' # results => code' # "failed"]_vars
=============================================================================
