---------------------------- MODULE RoundProofs ----------------------------
(***************************************************************************)
(* For any number of servers, polls, pools and signals: the types of       *)
(* ServerRound, what a result was measured on, and what is left running.   *)
(***************************************************************************)
EXTENDS ServerRound, TLAPS

(***************************************************************************)
(* Types                                                                   *)
(***************************************************************************)

\* The definitions that only group variables.
USE DEF Server

\* A signal leaves every process in one of its states.
LEMMA SignalledType ==
  ASSUME TypeOK
  PROVE  Signalled \in [Server -> {"none", "starting", "up", "stopping", "ending", "gone"}]
  BY DEF TypeOK, Signalled

\* Commands and servers keep the types of what they read and write.
LEMMA TypeStep == TypeOK /\ [Next]_vars => TypeOK'
<1> SUFFICES ASSUME TypeOK, [Next]_vars PROVE TypeOK'
  OBVIOUS
<1>0. /\ Steps \in Nat \ {0} /\ MaxPolls \in Nat /\ Signals \in Nat
      /\ Pools \subseteq Nat \ {0} /\ Expected \in Pools
  BY RoundAssumption
<1>1. CASE CheckEnv
  BY <1>1 DEF TypeOK, CheckEnv, Goto, Exit, servers, Labels
<1>2. CASE KillFirst
  BY <1>2, SignalledType DEF TypeOK, KillFirst, Goto, Labels
<1>3. CASE Launch
  BY <1>0, <1>3 DEF TypeOK, Launch, Goto, Labels
<1>4. CASE Poll
  BY <1>0, <1>4 DEF TypeOK, Poll, PollReady, PollAgain, PollGivesUp, Goto, Exit, servers, Labels
<1>5. CASE ReadPool
  BY <1>5 DEF TypeOK, ReadPool, Goto, Exit, servers, Labels
<1>6. CASE MeasureStart
  BY <1>6 DEF TypeOK, MeasureStart, Answering, Goto, servers, Labels
<1>7. CASE MeasureOk
  <2>1. [step |-> step, server |-> serving, pool |-> blocks]
          \in [step : 1..Steps, server : Server, pool : Pools \cup {0}]
    BY DEF TypeOK
  <2>2. results' \subseteq [step : 1..Steps, server : Server, pool : Pools \cup {0}]
    BY <1>7, <2>1 DEF TypeOK, MeasureOk
  <2>3. QED
    BY <1>7, <2>2 DEF TypeOK, MeasureOk, Goto, Exit, servers, Labels
<1>8. CASE MeasureFails
  BY <1>8 DEF TypeOK, MeasureFails, Goto, Exit, servers, Labels
<1>9. CASE Stop
  BY <1>9, SignalledType DEF TypeOK, Stop, Goto, Labels
<1>10. CASE Verdict
  BY <1>0, <1>10 DEF TypeOK, Verdict, NextServer, LastServer, Goto, Exit, servers, Labels
<1>11. CASE CleanUp
  BY <1>11, SignalledType DEF TypeOK, CleanUp, Goto, Labels
<1>12. CASE Term
  <2>1. CASE TrapHandler
    BY <1>0, <1>12, <2>1, SignalledType DEF TypeOK, Term, TrapHandler
  <2>2. CASE DefaultAction
    BY <1>0, <1>12, <2>2 DEF TypeOK, Term, DefaultAction, Labels
  <2>3. QED
    BY <1>12, <2>1, <2>2 DEF Term
<1>13. ASSUME NEW s \in Server, Boot(s) PROVE TypeOK'
  <2>1. PICK p \in Pools : pool' = [pool EXCEPT ![s] = p] /\ log' = p
    BY <1>13 DEF Boot
  <2>2. server' \in [Server -> {"none", "starting", "up", "stopping", "ending", "gone"}]
    BY <1>13 DEF TypeOK, Boot
  <2>3. QED
    BY <1>13, <2>1, <2>2 DEF TypeOK, Boot, shell
<1>14. ASSUME NEW s \in Server, Dies(s) PROVE TypeOK'
  BY <1>14 DEF TypeOK, Dies, shell
<1>15. CASE Ended \/ UNCHANGED vars
  BY <1>15 DEF TypeOK, Ended, vars, shell, servers
<1>16. QED
  BY <1>1, <1>2, <1>3, <1>4, <1>5, <1>6, <1>7, <1>8, <1>9, <1>10, <1>11, <1>12, <1>13,
     <1>14, <1>15 DEF Next, ScriptStep

\* A script starts with its first server, whatever was running before.
LEMMA TypeInit == Init => TypeOK
  BY RoundAssumption DEF Init, TypeOK, KillsFirst, Labels

\* The scripts poll at most MaxPolls times and read only pools that exist.
THEOREM TypeCorrect == Spec => []TypeOK
  BY TypeInit, TypeStep, PTL DEF Spec

(***************************************************************************)
(* What is left running                                                    *)
(***************************************************************************)

CodeOk == code = "killed" => pc = "end"

LeftInv == TypeOK /\ CodeOk /\ NothingLeftRunning

\* Only a script that was killed reaches its end without the kill before it.
LEMMA LeftStep == LeftInv /\ [Next]_vars => LeftInv'
<1> SUFFICES ASSUME LeftInv, [Next]_vars PROVE LeftInv'
  OBVIOUS
<1>0. TypeOK' /\ TypeOK
  BY TypeStep DEF LeftInv
<1>1. CASE CleanUp
  <2>1. \A s \in Server : server'[s] \notin {"starting", "up"}
    BY <1>0, <1>1 DEF CleanUp, Signalled, TypeOK
  <2>2. QED
    BY <1>0, <1>1, <2>1 DEF LeftInv, CodeOk, NothingLeftRunning, CleanUp, Goto
<1>2. CASE Term
  <2>1. pc # "end"
    BY <1>2 DEF Term
  <2>2. CASE TrapHandler
    BY <1>0, <2>1, <2>2 DEF TrapHandler, LeftInv, CodeOk, NothingLeftRunning
  <2>3. CASE DefaultAction
    BY <1>0, <2>3 DEF DefaultAction, LeftInv, CodeOk, NothingLeftRunning
  <2>4. QED
    BY <1>2, <2>2, <2>3 DEF Term
<1>3. CASE ScriptStep /\ ~CleanUp
  <2>1. pc # "end" /\ pc' # "end"
    BY <1>3 DEF ScriptStep, CheckEnv, KillFirst, Launch, Poll, PollReady, PollAgain,
                PollGivesUp, ReadPool, MeasureStart, MeasureOk, MeasureFails, Stop,
                Verdict, NextServer, LastServer, Goto, Exit
  <2>2. code' \in {code, "failed", "complete"}
    BY <1>3 DEF ScriptStep, CheckEnv, KillFirst, Launch, Poll, PollReady, PollAgain,
                PollGivesUp, ReadPool, MeasureStart, MeasureOk, MeasureFails, Stop,
                Verdict, NextServer, LastServer, Goto, Exit
  <2>3. QED
    BY <1>0, <2>1, <2>2 DEF LeftInv, CodeOk, NothingLeftRunning
<1>4. ASSUME NEW s \in Server, Boot(s) \/ Dies(s) PROVE LeftInv'
  <2>1. UNCHANGED <<pc, code>>
    BY <1>4 DEF Boot, Dies, shell
  <2>2. ASSUME NEW t \in Server, server[t] \notin {"starting", "up"}
        PROVE  server'[t] \notin {"starting", "up"}
    BY <1>0, <1>4, <2>2 DEF TypeOK, Boot, Dies
  <2>3. QED
    BY <1>0, <2>1, <2>2 DEF LeftInv, CodeOk, NothingLeftRunning
<1>5. CASE Ended \/ UNCHANGED vars
  BY <1>0, <1>5 DEF LeftInv, CodeOk, NothingLeftRunning, Ended, vars, shell, servers
<1>6. QED
  BY <1>1, <1>2, <1>3, <1>4, <1>5 DEF Next

\* However a script with its handlers ends, every server was told to stop
\* (cleanup() and the kills of the bench/ and hpc/ scripts).
THEOREM NoneLeftRunning == Spec => []NothingLeftRunning
<1>1. Init => LeftInv
  BY TypeInit DEF Init, LeftInv, CodeOk, NothingLeftRunning, KillsFirst
<1>2. LeftInv => NothingLeftRunning
  BY DEF LeftInv
<1>3. QED
  BY <1>1, <1>2, LeftStep, PTL DEF Spec

(***************************************************************************)
(* What a result was measured on, for the scripts that read the pool       *)
(***************************************************************************)

Watched   == {"poll", "pool", "measure", "measuring"}
BeforeIts == {"kill", "launch"} \cup Watched

\* The log was truncated at the launch, so what it shows is of this server,
\* which came up only when no other process was left.
StartingIsOwn ==
  \A s \in Server : server[s] = "starting" =>
    s = step /\ pc \notin {"kill", "launch", "verdict"}

LogIsOwn ==
  pc \in Watched /\ log # 0 =>
    log = pool[step] /\ Alive \subseteq {step} /\ server[step] # "starting"

\* A replay that has begun has read a pool, and the log has not changed since.
BlocksFromLog ==
  /\ pc \in {"measure", "measuring"} => blocks = log \/ blocks = 0
  /\ pc = "measuring" => blocks # 0

\* Results are of earlier servers until the replay of this one is over.
ResultsAreOwn ==
  \A r \in results :
    /\ r.server = r.step /\ r.pool = pool[r.server]
    /\ server[r.server] # "starting"
    /\ r.server <= step /\ (pc \in BeforeIts => r.server < step)

OwnInv ==
  script # "hpc" =>
    pc # "env" /\ StartingIsOwn /\ LogIsOwn /\ BlocksFromLog /\ ResultsAreOwn

\* A signal starts and ends no process.
LEMMA SignalledAlive ==
  ASSUME TypeOK, server' = Signalled
  PROVE  /\ Alive' = Alive
         /\ \A s \in Server : server'[s] # "starting"
  BY DEF TypeOK, Signalled, Alive

\* A handler changes the processes and rc, and nothing else the scripts read.
LEMMA SignalKeepsOwn ==
  ASSUME TypeOK, OwnInv, script # "hpc", server' = Signalled,
         UNCHANGED <<script, step, blocks, pool, log, results>>,
         \/ pc' = pc
         \/ pc = "kill" /\ pc' = "launch"
         \/ pc' \in {"verdict", "end"}
  PROVE  OwnInv'
<1>1. StartingIsOwn'
  BY SignalledAlive DEF StartingIsOwn
<1>2. step \in Server
  BY RoundAssumption DEF TypeOK
<1>3. LogIsOwn'
  BY <1>2, SignalledAlive DEF LogIsOwn, OwnInv, Watched, BeforeIts
<1>4. BlocksFromLog'
  BY DEF BlocksFromLog, OwnInv, Watched, BeforeIts
<1>5. \A r \in results : r.server \in Server
  BY DEF TypeOK
<1>6. ResultsAreOwn'
  BY <1>5, SignalledAlive DEF ResultsAreOwn, OwnInv, Watched, BeforeIts
<1>7. QED
  BY <1>1, <1>3, <1>4, <1>6 DEF OwnInv

\* A command that leaves servers, pools, log and results alone.
LEMMA CommandKeepsOwn ==
  ASSUME TypeOK, OwnInv, script # "hpc",
         UNCHANGED <<script, step, blocks, pool, log, results, server>>,
         \/ pc' = pc
         \/ pc \in {"poll", "pool"} /\ pc' \in {"poll", "pool"}
         \/ pc = "measure" /\ pc' = "measuring" /\ blocks # 0
         \/ pc' \in {"stop", "cleanup", "end"}
  PROVE  OwnInv'
<1>1. StartingIsOwn'
  BY DEF StartingIsOwn, OwnInv
<1>2. LogIsOwn'
  BY DEF LogIsOwn, OwnInv, Watched, Alive
<1>3. BlocksFromLog'
  BY DEF BlocksFromLog, OwnInv
<1>4. ResultsAreOwn'
  BY DEF ResultsAreOwn, OwnInv, Watched, BeforeIts
<1>5. QED
  BY <1>1, <1>2, <1>3, <1>4 DEF OwnInv

\* Every step of a script that reads the pool, and every step of a server.
LEMMA OwnStep ==
  ASSUME TypeOK, OwnInv, [Next]_vars, script # "hpc"
  PROVE  OwnInv'
<1>0. step \in 1..Steps /\ Steps \in Nat /\ step \in Server
  BY RoundAssumption DEF TypeOK
<1>00. \A r \in results : r.server \in Server /\ r.server \in Int
  BY <1>0 DEF TypeOK
<1>01. pc' # "env"
  BY DEF Next, ScriptStep, CheckEnv, KillFirst, Launch, Poll, PollReady, PollAgain,
         PollGivesUp, ReadPool, MeasureStart, MeasureOk, MeasureFails, Stop, Verdict,
         NextServer, LastServer, CleanUp, Term, TrapHandler, DefaultAction, Boot, Dies,
         Ended, vars, shell, Goto, Exit, OwnInv
<1>1. CASE CheckEnv
  BY <1>1 DEF CheckEnv, OwnInv
<1>2. CASE KillFirst
  BY <1>2, SignalKeepsOwn DEF KillFirst, Goto
<1>3. CASE Launch
  <2>1. pc = "launch" /\ pc' = "poll" /\ log' = 0
    BY <1>3 DEF Launch, Goto
  <2>2. server' = [server EXCEPT ![step] = "starting"] /\ UNCHANGED <<step, pool, results, script>>
    BY <1>3 DEF Launch
  <2>3. StartingIsOwn'
    BY <1>0, <2>1, <2>2 DEF StartingIsOwn, OwnInv, TypeOK
  <2>4. ResultsAreOwn'
    BY <1>0, <1>00, <2>1, <2>2 DEF ResultsAreOwn, OwnInv, Watched, BeforeIts, TypeOK
  <2>5. LogIsOwn' /\ BlocksFromLog'
    BY <2>1 DEF LogIsOwn, BlocksFromLog
  <2>6. QED
    BY <1>01, <2>3, <2>4, <2>5 DEF OwnInv
<1>4. CASE Poll
  <2>1. pc = "poll" /\ pc' \in {"poll", "pool", "cleanup"}
    BY <1>4 DEF Poll, PollReady, PollAgain, PollGivesUp, Goto, Exit, ReadsPool
  <2>2. UNCHANGED <<script, step, blocks, pool, log, results, server>>
    BY <1>4 DEF Poll, servers
  <2>3. QED
    BY <2>1, <2>2, CommandKeepsOwn
<1>5. CASE ReadPool
  <2>1. pc = "pool" /\ pc' \in {"measure", "cleanup"}
    BY <1>5 DEF ReadPool, Goto, Exit
  <2>2. blocks' = log /\ UNCHANGED <<script, step, pool, log, results, server>>
    BY <1>5 DEF ReadPool, servers
  <2>3. StartingIsOwn'
    BY <2>1, <2>2 DEF StartingIsOwn, OwnInv
  <2>4. LogIsOwn' /\ BlocksFromLog'
    BY <2>1, <2>2 DEF LogIsOwn, BlocksFromLog, OwnInv, Watched, Alive
  <2>5. ResultsAreOwn'
    BY <2>1, <2>2 DEF ResultsAreOwn, OwnInv, Watched, BeforeIts
  <2>6. QED
    BY <1>01, <2>3, <2>4, <2>5 DEF OwnInv
<1>6. CASE MeasureStart
  <2>1. pc = "measure" /\ pc' = "measuring" /\ blocks # 0
    BY <1>6 DEF MeasureStart, Goto, ReadsPool
  <2>2. UNCHANGED <<script, step, blocks, pool, log, results, server>>
    BY <1>6 DEF MeasureStart, servers
  <2>3. QED
    BY <2>1, <2>2, CommandKeepsOwn
<1>7. CASE MeasureOk
  <2>1. pc = "measuring" /\ pc' = "stop" /\ serving \in Answering
    BY <1>7 DEF MeasureOk, Goto
  <2>2. UNCHANGED <<script, step, blocks, pool, log, server>>
    BY <1>7 DEF MeasureOk, servers
  <2>3. log # 0 /\ blocks = log
    BY <2>1 DEF OwnInv, BlocksFromLog
  <2>4. blocks = pool[step] /\ server[step] # "starting" /\ Alive \subseteq {step}
    BY <2>1, <2>3 DEF OwnInv, LogIsOwn, Watched
  <2>5. serving = step
    BY <2>1, <2>4 DEF Answering, Alive
  <2>6. ASSUME NEW r \in results'
        PROVE  r \in results \/ (r.server = step /\ r.step = step /\ r.pool = blocks)
    <3>1. results' = results \cup {[step |-> step, server |-> step, pool |-> blocks]}
      BY <1>7, <2>5 DEF MeasureOk
    <3>2. CASE r = [step |-> step, server |-> step, pool |-> blocks]
      BY <3>2
    <3>3. QED
      BY <3>1, <3>2
  <2>7. ResultsAreOwn'
    BY <1>0, <1>00, <2>1, <2>2, <2>4, <2>6 DEF ResultsAreOwn, OwnInv, Watched, BeforeIts
  <2>8. StartingIsOwn' /\ LogIsOwn' /\ BlocksFromLog'
    BY <2>1, <2>2 DEF StartingIsOwn, LogIsOwn, BlocksFromLog, OwnInv, Watched
  <2>9. QED
    BY <1>01, <2>7, <2>8 DEF OwnInv
<1>8. CASE MeasureFails
  <2>1. pc' = "stop" /\ UNCHANGED <<script, step, blocks, pool, log, results, server>>
    BY <1>8 DEF MeasureFails, Goto, servers
  <2>2. QED
    BY <2>1, CommandKeepsOwn
<1>9. CASE Stop
  BY <1>9, SignalKeepsOwn DEF Stop, Goto
<1>10. CASE Verdict
  <2>1. pc = "verdict" /\ UNCHANGED <<script, blocks, pool, log, results, server>>
    BY <1>10 DEF Verdict, servers
  <2>2. \/ step' = step + 1 /\ pc' = "kill"
        \/ step' = step /\ pc' = "cleanup"
    BY <1>10 DEF Verdict, NextServer, LastServer, Goto, Exit
  <2>3. StartingIsOwn' /\ LogIsOwn' /\ BlocksFromLog'
    BY <2>1, <2>2 DEF StartingIsOwn, LogIsOwn, BlocksFromLog, OwnInv, Watched
  <2>4. ResultsAreOwn'
    BY <1>0, <1>00, <2>1, <2>2 DEF ResultsAreOwn, OwnInv, Watched, BeforeIts
  <2>5. QED
    BY <1>01, <2>3, <2>4 DEF OwnInv
<1>11. CASE CleanUp
  BY <1>11, SignalKeepsOwn DEF CleanUp, Goto
<1>12. CASE Term
  <2>1. UNCHANGED <<script, step, blocks, pool, log, results>>
    BY <1>12 DEF Term
  <2>2. CASE TrapHandler
    <3>1. server' = Signalled /\ pc' = pc
      BY <2>2 DEF TrapHandler
    <3>2. QED
      BY <2>1, <3>1, SignalKeepsOwn
  <2>3. CASE DefaultAction
    BY <2>1, <2>3, CommandKeepsOwn DEF DefaultAction
  <2>4. QED
    BY <1>12, <2>2, <2>3 DEF Term
<1>13. ASSUME NEW s \in Server, Boot(s) PROVE OwnInv'
  <2>1. UNCHANGED <<script, step, blocks, results, pc>>
    BY <1>13 DEF Boot, shell
  <2>2. s = step /\ pc \notin {"kill", "launch", "verdict"} /\ server[s] = "starting"
    BY <1>13 DEF Boot, OwnInv, StartingIsOwn
  <2>3. server' = [server EXCEPT ![s] = "up"] /\ Alive = {s}
    BY <1>13 DEF Boot
  <2>4. pool'[s] = log' /\ \A t \in Server \ {s} : pool'[t] = pool[t]
    BY <1>13 DEF Boot, TypeOK
  <2>5. StartingIsOwn'
    BY <2>1, <2>3 DEF StartingIsOwn, OwnInv, TypeOK
  <2>6. Alive' \subseteq {step} /\ server'[step] # "starting"
    BY <2>2, <2>3 DEF Alive, TypeOK
  <2>7. LogIsOwn'
    BY <2>1, <2>2, <2>4, <2>6 DEF LogIsOwn
  <2>8. pc \in Watched => log = 0
    BY <2>2 DEF OwnInv, LogIsOwn
  <2>9. BlocksFromLog'
    BY <2>1, <2>8 DEF OwnInv, BlocksFromLog, Watched
  <2>10. ResultsAreOwn'
    BY <1>00, <2>1, <2>2, <2>3, <2>4 DEF ResultsAreOwn, OwnInv, TypeOK
  <2>11. QED
    BY <1>01, <2>5, <2>7, <2>9, <2>10 DEF OwnInv
<1>14. ASSUME NEW s \in Server, Dies(s) PROVE OwnInv'
  <2>1. UNCHANGED <<script, step, blocks, results, pc, pool, log>>
    BY <1>14 DEF Dies, shell
  <2>2. \A t \in Server : server'[t] = server[t] \/ server'[t] = "gone"
    BY <1>14 DEF Dies, TypeOK
  <2>3. StartingIsOwn' /\ BlocksFromLog'
    BY <2>1, <2>2 DEF StartingIsOwn, BlocksFromLog, OwnInv
  <2>4. Alive' \subseteq Alive
    BY <2>2 DEF Alive
  <2>5. LogIsOwn'
    BY <1>0, <2>1, <2>2, <2>4 DEF LogIsOwn, OwnInv
  <2>6. ResultsAreOwn'
    BY <1>00, <2>1, <2>2 DEF ResultsAreOwn, OwnInv
  <2>7. QED
    BY <1>01, <2>3, <2>5, <2>6 DEF OwnInv
<1>15. CASE Ended \/ UNCHANGED vars
  BY <1>15, CommandKeepsOwn DEF Ended, vars, shell, servers
<1>16. QED
  BY <1>1, <1>2, <1>3, <1>4, <1>5, <1>6, <1>7, <1>8, <1>9, <1>10, <1>11, <1>12, <1>13,
     <1>14, <1>15 DEF Next, ScriptStep

\* A replay's result is of the server that was started for it and carries that
\* server's pool, whoever answered the readiness poll (the pool check of
\* seeds_at_pressure.sh and sweep_admission.sh).
THEOREM ResultsOwnServer == Spec => []OwnServer
<1>1. Init => TypeOK /\ OwnInv
  <2> SUFFICES ASSUME Init PROVE OwnInv
    BY TypeInit
  <2>1. \A s \in Server : server[s] # "starting"
    BY DEF Init
  <2>2. QED
    BY <2>1 DEF Init, OwnInv, StartingIsOwn, LogIsOwn, BlocksFromLog, ResultsAreOwn,
                KillsFirst, Watched
<1>2. TypeOK /\ OwnInv /\ [Next]_vars => (TypeOK /\ OwnInv)'
  <2> SUFFICES ASSUME TypeOK, OwnInv, [Next]_vars PROVE OwnInv'
    BY TypeStep
  <2>1. script' = script
    BY DEF Next, ScriptStep, CheckEnv, KillFirst, Launch, Poll, ReadPool, MeasureStart,
           MeasureOk, MeasureFails, Stop, Verdict, CleanUp, Term, Boot, Dies, Ended,
           vars, shell
  <2>2. QED
    BY <2>1, OwnStep DEF OwnInv
<1>3. TypeOK /\ OwnInv => OwnServer
  BY DEF OwnInv, ResultsAreOwn, OwnServer
<1>4. QED
  BY <1>1, <1>2, <1>3, PTL DEF Spec
=============================================================================
